---- MODULE Spec2Model ----
(***************************************************************************)
(* A model of the Coretex prescription analysis core:                      *)
(*   packages/coretex-engine/src/analyzePrescription.ts  (local analysis)  *)
(*   coretex-api/src/conflict_client.ts  (external check, merge, fallback) *)
(*                                                                         *)
(* Conventions.  A JavaScript string is the tuple of its characters, each  *)
(* a one-character string, so that toLowerCase, sort, split, trim,         *)
(* includes and template concatenation are computed and not assumed.  An   *)
(* optional value (x?: T, or T | undefined) is the empty tuple when it is  *)
(* absent and the one-element tuple <<v>> when it is present.  Array       *)
(* indices are 1-based here and 0-based in the source.  A duration in      *)
(* hours that need not be whole (the result of timeDiffHours) is counted   *)
(* in minutes, i.e. in sixtieths of an hour.                               *)
(***************************************************************************)
EXTENDS Integers, Sequences, FiniteSets, TLC

VARIABLES
  entry,                \* which exported function the caller invoked
  endpoint,             \* EXTERNAL_CONFLICT_CHECK_URL: "none", "ok" or "malformed"
  payload,              \* payload.medications of the request
  pc,                   \* position of the request in its async function
  local,                \* const local = analyzePrescription(payload)
  i, j,                 \* loop indices of collectExternalInteractions
  interactions,         \* the interactions array of collectExternalInteractions
  calls,                \* the fetch calls issued so far, as index pairs, in order
  outcomes,             \* how each answered call ended: "conflict", "clear" or "failed"
  stalled,              \* the collaborator will never answer the outstanding call
  result,               \* the value the entry point's promise resolved with, if any
  raised,               \* the entry point's promise rejected (error reached the caller)
  warnings,             \* number of console.warn calls
  tables,               \* the module-level objects rules and baseTimes
  patient               \* the patient's record in the database file

vars == <<entry, endpoint, payload, pc, local, i, j, interactions, calls,
          outcomes, stalled, result, raised, warnings, tables, patient>>

----------------------------------------------------------------------------
(* Optional values *)

None == <<>>

Some(v) == <<v>>

IsSome(m) == m # <<>>

(* JavaScript truthiness of an optional number: undefined and 0 are falsy. *)
TruthyNum(m) == IsSome(m) /\ m[1] # 0

----------------------------------------------------------------------------
(* Strings as character tuples *)

UpperLetters ==
  <<"A","B","C","D","E","F","G","H","I","J","K","L","M",
    "N","O","P","Q","R","S","T","U","V","W","X","Y","Z">>

LowerLetters ==
  <<"a","b","c","d","e","f","g","h","i","j","k","l","m",
    "n","o","p","q","r","s","t","u","v","w","x","y","z">>

DigitChars == <<"0","1","2","3","4","5","6","7","8","9">>

(* The characters used, in ascending order of their UTF-16 code unit. *)
Alphabet ==
  <<" ","(",")","+",",","-",".","/">> \o DigitChars \o <<":">> \o
  UpperLetters \o <<"_">> \o LowerLetters

CharCode(c) == CHOOSE k \in 1..Len(Alphabet) : Alphabet[k] = c

LowerChar(c) ==
  IF \E k \in 1..26 : UpperLetters[k] = c
  THEN LowerLetters[CHOOSE k \in 1..26 : UpperLetters[k] = c]
  ELSE c

(* String.prototype.toLowerCase *)
toLowerCase(s) == [k \in 1..Len(s) |-> LowerChar(s[k])]

(* a < b in the order Array.prototype.sort uses for strings (code units) *)
RECURSIVE StrLess(_, _)
StrLess(a, b) ==
  IF b = <<>> THEN FALSE
  ELSE IF a = <<>> THEN TRUE
  ELSE IF a[1] = b[1] THEN StrLess(Tail(a), Tail(b))
  ELSE CharCode(a[1]) < CharCode(b[1])

(* Array.prototype.join *)
RECURSIVE Join(_, _)
Join(list, sep) ==
  IF list = <<>> THEN <<>>
  ELSE IF Len(list) = 1 THEN list[1]
  ELSE list[1] \o sep \o Join(Tail(list), sep)

(* String.prototype.split on a one-character separator *)
RECURSIVE Split(_, _)
Split(s, c) ==
  IF \E k \in 1..Len(s) : s[k] = c
  THEN LET k == CHOOSE k \in 1..Len(s) : s[k] = c /\ \A l \in 1..(k-1) : s[l] # c
       IN <<SubSeq(s, 1, k-1)>> \o Split(SubSeq(s, k+1, Len(s)), c)
  ELSE <<s>>

DigitValue(c) == (CHOOSE k \in 1..10 : DigitChars[k] = c) - 1

(* Number(s) for a string of decimal digits; Number("") is 0 *)
RECURSIVE DigitsToNat(_)
DigitsToNat(s) ==
  IF s = <<>> THEN 0
  ELSE 10 * DigitsToNat(SubSeq(s, 1, Len(s)-1)) + DigitValue(s[Len(s)])

(* Number.prototype.toString for a natural number *)
RECURSIVE NatToStr(_)
NatToStr(n) ==
  IF n < 10 THEN <<DigitChars[n+1]>>
  ELSE NatToStr(n \div 10) \o <<DigitChars[(n % 10) + 1]>>

(* s.padStart(2, "0") *)
PadStart2(s) == IF Len(s) < 2 THEN <<"0">> \o s ELSE s

(* The % operator of JavaScript: the result has the sign of the dividend. *)
JsRem(a, b) == IF a >= 0 THEN a % b ELSE -((-a) % b)

----------------------------------------------------------------------------
(* analyzePrescription.ts: rule base and default times *)

MinutesPerDay == 1440

MinutesPerHour == 60

MaxShiftHours == 12

MinMedications == 2

MaxMedications == 4

rules ==
  (<<"a","s","p","i","r","i","n",":",":","w","a","r","f","a","r","i","n">> :>
     [severity |-> "major",
      reason |-> <<"I","n","c","r","e","a","s","e","d"," ","b","l","e","e","d","i","n","g"," ","r","i","s","k"," ","f","r","o","m"," ","a","d","d","i","t","i","v","e"," ","a","n","t","i","c","o","a","g","u","l","a","n","t"," ","e","f","f","e","c","t","s",".">>,
      canSeparateBySchedule |-> FALSE,
      minHoursApart |-> None,
      alternatives |-> (<<"a","s","p","i","r","i","n">> :> <<<<"c","l","o","p","i","d","o","g","r","e","l">>>>) @@
                       (<<"w","a","r","f","a","r","i","n">> :> <<<<"a","p","i","x","a","b","a","n">>>>)]) @@
  (<<"c","l","a","r","i","t","h","r","o","m","y","c","i","n",":",":","s","i","m","v","a","s","t","a","t","i","n">> :>
     [severity |-> "contraindicated",
      reason |-> <<"S","t","r","o","n","g"," ","C","Y","P","3","A","4"," ","i","n","h","i","b","i","t","i","o","n"," ","m","a","y"," ","i","n","c","r","e","a","s","e"," ","s","i","m","v","a","s","t","a","t","i","n"," ","t","o","x","i","c","i","t","y",".">>,
      canSeparateBySchedule |-> FALSE,
      minHoursApart |-> None,
      alternatives |-> (<<"c","l","a","r","i","t","h","r","o","m","y","c","i","n">> :> <<<<"a","z","i","t","h","r","o","m","y","c","i","n">>>>) @@
                       (<<"s","i","m","v","a","s","t","a","t","i","n">> :> <<<<"p","r","a","v","a","s","t","a","t","i","n">>, <<"r","o","s","u","v","a","s","t","a","t","i","n">>>>)]) @@
  (<<"c","a","l","c","i","u","m",":",":","l","e","v","o","t","h","y","r","o","x","i","n","e">> :>
     [severity |-> "moderate",
      reason |-> <<"C","a","l","c","i","u","m"," ","r","e","d","u","c","e","s"," ","l","e","v","o","t","h","y","r","o","x","i","n","e"," ","a","b","s","o","r","p","t","i","o","n",".">>,
      canSeparateBySchedule |-> TRUE,
      minHoursApart |-> Some(4),
      alternatives |-> (<<"c","a","l","c","i","u","m">> :> <<<<"v","i","t","a","m","i","n"," ","D"," ","o","n","l","y"," ","(","i","f"," ","c","l","i","n","i","c","a","l","l","y"," ","a","c","c","e","p","t","a","b","l","e",")">>>>)]) @@
  (<<"c","i","p","r","o","f","l","o","x","a","c","i","n",":",":","i","r","o","n">> :>
     [severity |-> "moderate",
      reason |-> <<"I","r","o","n"," ","c","h","e","l","a","t","e","s"," ","c","i","p","r","o","f","l","o","x","a","c","i","n"," ","a","n","d"," ","l","o","w","e","r","s"," ","a","n","t","i","b","i","o","t","i","c"," ","a","b","s","o","r","p","t","i","o","n",".">>,
      canSeparateBySchedule |-> TRUE,
      minHoursApart |-> Some(2),
      alternatives |-> (<<"c","i","p","r","o","f","l","o","x","a","c","i","n">> :> <<<<"d","o","x","y","c","y","c","l","i","n","e"," ","(","i","f"," ","a","p","p","r","o","p","r","i","a","t","e",")">>>>)])

baseTimes ==
  (1 :> <<<<"0","8",":","0","0">>>>) @@
  (2 :> <<<<"0","8",":","0","0">>, <<"2","0",":","0","0">>>>) @@
  (3 :> <<<<"0","8",":","0","0">>, <<"1","4",":","0","0">>, <<"2","0",":","0","0">>>>) @@
  (4 :> <<<<"0","6",":","0","0">>, <<"1","2",":","0","0">>, <<"1","8",":","0","0">>, <<"2","2",":","0","0">>>>)

(* Variant: the names are joined in the order given, without sorting. *)
toPairKeyUnsorted(a, b) ==
  Join(<<toLowerCase(a), toLowerCase(b)>>, <<":",":">>)

(* [a.toLowerCase(), b.toLowerCase()].sort().join("::") *)
toPairKey(a, b) ==
  LET la == toLowerCase(a)
      lb == toLowerCase(b)
      sorted == IF StrLess(lb, la) THEN <<lb, la>> ELSE <<la, lb>>
  IN Join(sorted, <<":",":">>)

parseTime(time) ==
  LET parts == Split(time, ":")
      hours == DigitsToNat(parts[1])
      minutes == DigitsToNat(parts[2])
  IN hours * 60 + minutes

(* Variant: hours and minutes are written without padStart. *)
formatTimeUnpadded(totalMinutes) ==
  LET normalized == JsRem(JsRem(totalMinutes, MinutesPerDay) + MinutesPerDay, MinutesPerDay)
      h == normalized \div 60
      m == normalized % 60
  IN NatToStr(h) \o <<":">> \o NatToStr(m)

formatTime(totalMinutes) ==
  LET normalized == JsRem(JsRem(totalMinutes, MinutesPerDay) + MinutesPerDay, MinutesPerDay)
      h == normalized \div 60
      m == normalized % 60
  IN PadStart2(NatToStr(h)) \o <<":">> \o PadStart2(NatToStr(m))

(* The circular distance of two clock times; wrapped / 60 hours, counted *)
(* here in minutes (sixtieths of an hour).                               *)
MathAbs(x) == IF x < 0 THEN -x ELSE x

MathMin(x, y) == IF x < y THEN x ELSE y

(* Variant: the difference is not wrapped around midnight. *)
Unwrapped(diff) == diff

(* wrapped = Math.min(diff, 24 * 60 - diff) *)
Wrapped(diff) == MathMin(diff, MinutesPerDay - diff)

timeDiffHours(a, b) == Wrapped(MathAbs(parseTime(a) - parseTime(b)))

allPairsRespectGap(timesA, timesB, minHours) ==
  \A ka \in 1..Len(timesA) : \A kb \in 1..Len(timesB) :
     ~(timeDiffHours(timesA[ka], timesB[kb]) < minHours * MinutesPerHour)

(* hours is a whole number at every call site, so Math.round(hours * 60) *)
(* is hours * 60.                                                        *)
shiftTimes(times, hours) ==
  LET shiftMinutes == hours * 60
  IN [k \in 1..Len(times) |-> formatTime(parseTime(times[k]) + shiftMinutes)]

(* Variant: every slot gets the once-daily times. *)
buildInitialScheduleOnceDaily(medications) ==
  [k \in 1..Len(medications) |->
     [medication |-> medications[k].name,
      times |-> baseTimes[1],
      note |-> None]]

buildInitialSchedule(medications) ==
  [k \in 1..Len(medications) |->
     [medication |-> medications[k].name,
      times |-> baseTimes[medications[k].frequencyPerDay],
      note |-> None]]

(* The index pairs (i, j), i < j, in the order of the two nested loops. *)
RECURSIVE PairsFrom(_, _, _)
PairsFrom(a, b, n) ==
  IF a > n THEN <<>>
  ELSE IF b > n THEN PairsFrom(a + 1, a + 2, n)
  ELSE <<<<a, b>>>> \o PairsFrom(a, b + 1, n)

IndexPairs(n) == PairsFrom(1, 2, n)

(* Variant: the finding records the pair in the order of the canonical key. *)
FindingOfKeyOrder(a, b, rule) ==
  [medications |-> IF StrLess(toLowerCase(b.name), toLowerCase(a.name))
                   THEN <<b.name, a.name>> ELSE <<a.name, b.name>>,
   severity |-> rule.severity,
   reason |-> rule.reason,
   canSeparateBySchedule |-> rule.canSeparateBySchedule,
   minHoursApart |-> rule.minHoursApart,
   alternatives |-> Some(rule.alternatives)]

(* The finding pushed for medications a and b under their rule. *)
FindingOf(a, b, rule) ==
  [medications |-> <<a.name, b.name>>,
   severity |-> rule.severity,
   reason |-> rule.reason,
   canSeparateBySchedule |-> rule.canSeparateBySchedule,
   minHoursApart |-> rule.minHoursApart,
   alternatives |-> Some(rule.alternatives)]

(* const rule = rules[key]; if (!rule) continue; findings.push(...) *)
LookupPair(a, b, key) ==
  IF key \in DOMAIN rules THEN <<FindingOf(a, b, rules[key])>> ELSE <<>>

(* One iteration of the inner loop of detectInteractions. *)
DetectPair(a, b) == LookupPair(a, b, toPairKey(a.name, b.name))

RECURSIVE DetectFrom(_, _)
DetectFrom(medications, pairs) ==
  IF pairs = <<>> THEN <<>>
  ELSE DetectPair(medications[pairs[1][1]], medications[pairs[1][2]]) \o
       DetectFrom(medications, Tail(pairs))

detectInteractions(medications) ==
  DetectFrom(medications, IndexPairs(Len(medications)))

(* updated.find((slot) => slot.medication === name): the index of the first *)
(* slot with that medication name, 0 when there is none.                    *)
FindSlot(updated, name) ==
  IF \E k \in 1..Len(updated) : updated[k].medication = name
  THEN CHOOSE k \in 1..Len(updated) :
         /\ updated[k].medication = name
         /\ \A l \in 1..(k-1) : updated[l].medication # name
  ELSE 0

KeepNote(hours, medication) ==
  <<"K","e","e","p"," ","a","t"," ","l","e","a","s","t"," ">> \o NatToStr(hours) \o <<" ","h","o","u","r","s"," ","a","p","a","r","t"," ","f","r","o","m"," ">> \o medication \o <<".">>

ShiftedNote(hours, medication) ==
  <<"S","h","i","f","t","e","d"," ","t","o"," ","m","a","i","n","t","a","i","n"," ">> \o NatToStr(hours) \o <<"-","h","o","u","r"," ","s","e","p","a","r","a","t","i","o","n"," ","f","r","o","m"," ">> \o
  medication \o <<".">>

UnableNote(medication) ==
  <<"U","n","a","b","l","e"," ","t","o"," ","s","a","f","e","l","y"," ","s","e","p","a","r","a","t","e"," ","f","r","o","m"," ">> \o medication \o <<" ","b","y"," ","s","c","h","e","d","u","l","e"," ","a","l","o","n","e",".">>

(* Variant: the search loop starts at a shift of one hour. *)
ShiftCandidatesFromOne(minHoursApart) == 1..MaxShiftHours

(* The shifts the search loop tries, in order: minHoursApart, ..., 12. *)
ShiftCandidates(minHoursApart) == minHoursApart..MaxShiftHours

(* Variant: the search keeps the last shift that passes, not the first. *)
Latest(passing) ==
  IF passing = {} THEN None
  ELSE Some(CHOOSE s \in passing : \A t \in passing : s >= t)

(* The first shift of the search loop that passes the gap check, if any. *)
Earliest(passing) ==
  IF passing = {} THEN None
  ELSE Some(CHOOSE s \in passing : \A t \in passing : s <= t)

FirstShift(timesA, timesB, minHoursApart) ==
  Earliest({s \in ShiftCandidates(minHoursApart) :
              allPairsRespectGap(timesA, shiftTimes(timesB, s), minHoursApart)})

(* Variant: the shift found is noted on the slot but its times are not set. *)
ApplyShiftNoteOnly(updated, medA, medB, minHoursApart, shift) ==
  IF IsSome(shift)
  THEN [updated EXCEPT
          ![medB].note = Some(ShiftedNote(minHoursApart, updated[medA].medication))]
  ELSE [updated EXCEPT ![medB].note = Some(UnableNote(updated[medA].medication))]

(* Variant: when no shift passes, the last shift tried is applied all the same. *)
ApplyShiftForced(updated, medA, medB, minHoursApart, shift) ==
  IF IsSome(shift)
  THEN [updated EXCEPT
          ![medB].times = shiftTimes(updated[medB].times, shift[1]),
          ![medB].note = Some(ShiftedNote(minHoursApart, updated[medA].medication))]
  ELSE [updated EXCEPT
          ![medB].times = shiftTimes(updated[medB].times, MaxShiftHours),
          ![medB].note = Some(UnableNote(updated[medA].medication))]

(* if (!shifted) { note = "Unable ..." }, else the times and the note that *)
(* the search loop set; shift is the first passing shift, if any.          *)
ApplyShift(updated, medA, medB, minHoursApart, shift) ==
  IF IsSome(shift)
  THEN [updated EXCEPT
          ![medB].times = shiftTimes(updated[medB].times, shift[1]),
          ![medB].note = Some(ShiftedNote(minHoursApart, updated[medA].medication))]
  ELSE [updated EXCEPT ![medB].note = Some(UnableNote(updated[medA].medication))]

(* Variant: the check of the gap that is already respected is left out. *)
SeparateSlotsAlwaysShifting(updated, medA, medB, minHoursApart) ==
  IF medA = 0 \/ medB = 0 THEN updated
  ELSE ApplyShift(updated, medA, medB, minHoursApart,
                  FirstShift(updated[medA].times, updated[medB].times, minHoursApart))

(* The body of the loop once the finding is separable; medA and medB are *)
(* the indices of the two slots, 0 for a slot that was not found.        *)
SeparateSlots(updated, medA, medB, minHoursApart) ==
  IF medA = 0 \/ medB = 0 THEN updated
  ELSE IF allPairsRespectGap(updated[medA].times, updated[medB].times, minHoursApart)
  THEN [updated EXCEPT
          ![medB].note = Some(KeepNote(minHoursApart, updated[medA].medication))]
  ELSE ApplyShift(updated, medA, medB, minHoursApart,
                  FirstShift(updated[medA].times, updated[medB].times, minHoursApart))

(* Variant: a finding that is not separable is noted on the second slot. *)
OptimizeFindingUnguarded(updated, finding) ==
  IF ~finding.canSeparateBySchedule \/ ~TruthyNum(finding.minHoursApart)
  THEN [updated EXCEPT
          ![FindSlot(updated, finding.medications[2])].note =
             Some(UnableNote(finding.medications[1]))]
  ELSE SeparateSlots(updated,
                     FindSlot(updated, finding.medications[1]),
                     FindSlot(updated, finding.medications[2]),
                     finding.minHoursApart[1])

(* One iteration of the loop of optimizeSchedule over the findings. *)
OptimizeFinding(updated, finding) ==
  IF ~finding.canSeparateBySchedule \/ ~TruthyNum(finding.minHoursApart)
  THEN updated
  ELSE SeparateSlots(updated,
                     FindSlot(updated, finding.medications[1]),
                     FindSlot(updated, finding.medications[2]),
                     finding.minHoursApart[1])

RECURSIVE optimizeSchedule(_, _)
optimizeSchedule(schedule, findings) ==
  IF findings = <<>> THEN schedule
  ELSE optimizeSchedule(OptimizeFinding(schedule, findings[1]), Tail(findings))

(* alternatives[med] ?? [], with alternatives = finding.alternatives ?? {} *)
AlternativesOf(finding, med) ==
  IF IsSome(finding.alternatives) /\ med \in DOMAIN finding.alternatives[1]
  THEN finding.alternatives[1][med]
  ELSE <<>>

(* x || fallback for strings: the empty string is falsy *)
OrElse(x, fallback) == IF x = <<>> THEN fallback ELSE x

(* The recommendation that generateRecommendations pushes for one finding. *)
RecommendationFor(finding) ==
  LET medA == finding.medications[1]
      medB == finding.medications[2]
      listed == Join(AlternativesOf(finding, medA) \o AlternativesOf(finding, medB), <<","," ">>)
  IN IF finding.severity = "contraindicated"
     THEN [type |-> "avoid_combination",
           title |-> <<"A","v","o","i","d"," ","c","o","m","b","i","n","i","n","g"," ">> \o medA \o <<" ","a","n","d"," ">> \o medB,
           details |-> finding.reason \o <<" ","C","o","n","s","i","d","e","r"," ","a","l","t","e","r","n","a","t","i","v","e","s",":"," ">> \o
                       OrElse(listed, <<"n","o","n","e"," ","l","i","s","t","e","d">>)]
     ELSE IF finding.canSeparateBySchedule /\ TruthyNum(finding.minHoursApart)
     THEN [type |-> "keep_and_separate",
           title |-> <<"S","c","h","e","d","u","l","e"," ">> \o medA \o <<" ","a","n","d"," ">> \o medB \o <<" ","a","p","a","r","t">>,
           details |-> <<"K","e","e","p"," ","a","t"," ","l","e","a","s","t"," ">> \o NatToStr(finding.minHoursApart[1]) \o
                       <<" ","h","o","u","r","s"," ","a","p","a","r","t","."," ">> \o finding.reason]
     ELSE [type |-> "replace_medication",
           title |-> <<"R","e","p","l","a","c","e"," ","o","n","e"," ","m","e","d","i","c","a","t","i","o","n"," ","i","n"," ">> \o medA \o <<" ","+"," ">> \o medB,
           details |-> finding.reason \o <<" ","S","a","f","e","r"," ","o","p","t","i","o","n","s",":"," ">> \o
                       OrElse(listed, <<"r","e","v","i","e","w"," ","f","o","r","m","u","l","a","r","y"," ","a","l","t","e","r","n","a","t","i","v","e","s">>)]

generateRecommendations(findings) ==
  [k \in 1..Len(findings) |-> RecommendationFor(findings[k])]

(* The predicate of interactions.some(...) in analyzePrescription *)
IsUnsafeFinding(interaction) ==
  \/ interaction.severity = "contraindicated"
  \/ interaction.severity = "major" /\ ~interaction.canSeparateBySchedule

(* The result object that analyzePrescription returns, given its *)
(* interactions and the initial schedule.                        *)
AnalysisResult(found, initial) ==
  [isSafe |-> ~(\E k \in 1..Len(found) : IsUnsafeFinding(found[k])),
   interactions |-> found,
   schedule |-> optimizeSchedule(initial, found),
   recommendations |-> generateRecommendations(found)]

analyzePrescription(medications) ==
  AnalysisResult(detectInteractions(medications), buildInitialSchedule(medications))

----------------------------------------------------------------------------
(* conflict_client.ts: the normalizer of external responses                *)
(*                                                                         *)
(* A decoded JSON value is a record tagged by its type:                    *)
(*   [t |-> "null"], [t |-> "bool", b |-> TRUE], [t |-> "num", n |-> 25],  *)
(*   [t |-> "str", s |-> chars], [t |-> "arr", a |-> <<values>>],          *)
(*   [t |-> "obj", o |-> function from keys to values].                    *)
(* A number is counted in tenths: n |-> 25 is 2.5.  Object keys are only   *)
(* ever looked up whole, so a key is an ordinary string.                   *)

JBool(b) == [t |-> "bool", b |-> b]

JNum(tenths) == [t |-> "num", n |-> tenths]

JStr(s) == [t |-> "str", s |-> s]

JNull == [t |-> "null"]

JArr(a) == [t |-> "arr", a |-> a]

JObj(o) == [t |-> "obj", o |-> o]

(* record[key]: absent when the object has no such key *)
Get(record, key) == IF key \in DOMAIN record THEN Some(record[key]) ELSE None

IsSpace(c) == c = " "

(* String.prototype.trim *)
RECURSIVE Trim(_)
Trim(s) ==
  IF s = <<>> THEN s
  ELSE IF IsSpace(s[1]) THEN Trim(Tail(s))
  ELSE IF IsSpace(s[Len(s)]) THEN Trim(SubSeq(s, 1, Len(s) - 1))
  ELSE s

(* String.prototype.includes *)
Includes(s, sub) ==
  \E k \in 0..(Len(s) - Len(sub)) : SubSeq(s, k + 1, k + Len(sub)) = sub

IsDigits(s) == s # <<>> /\ \A k \in 1..Len(s) : \E d \in 1..10 : DigitChars[d] = s[k]

(* Number(s) for a string, in tenths, absent for NaN.  Covers the empty or *)
(* blank string (0) and decimal numerals with an optional sign and at most *)
(* one fractional digit; the payloads of this model hold no other numeric  *)
(* spelling (exponents, hex, Infinity), and any other text is NaN.         *)
Numeral(sign, parts) ==
  IF Len(parts) = 1 /\ IsDigits(parts[1])
  THEN Some(sign * 10 * DigitsToNat(parts[1]))
  ELSE IF Len(parts) = 2 /\ IsDigits(parts[1]) /\ IsDigits(parts[2]) /\ Len(parts[2]) = 1
  THEN Some(sign * (10 * DigitsToNat(parts[1]) + DigitsToNat(parts[2])))
  ELSE None

TrimmedNumber(t) ==
  IF t = <<>> THEN Some(0)
  ELSE IF t[1] = "-" THEN Numeral(-1, Split(Tail(t), "."))
  ELSE IF t[1] = "+" THEN Numeral(1, Split(Tail(t), "."))
  ELSE Numeral(1, Split(t, "."))

JsNumber(s) == TrimmedNumber(Trim(s))

(* Math.round of a number counted in tenths: halves round up *)
MathRound(tenths) == (tenths + 5) \div 10

asRecord(value) ==
  IF IsSome(value) /\ value[1].t = "obj" THEN Some(value[1].o) ELSE None

(* the string case of parseBooleanValue, on the normalized text *)
BooleanWord(normalized) ==
  IF normalized \in {<<"t","r","u","e">>, <<"y","e","s">>, <<"y">>, <<"1">>} THEN Some(TRUE)
  ELSE IF normalized \in {<<"f","a","l","s","e">>, <<"n","o">>, <<"n">>, <<"0">>} THEN Some(FALSE)
  ELSE None

parseBooleanValue(value) ==
  IF ~IsSome(value) THEN None
  ELSE LET v == value[1] IN
    CASE v.t = "bool" -> Some(v.b)
      [] v.t = "num" -> IF v.n = 10 THEN Some(TRUE)
                        ELSE IF v.n = 0 THEN Some(FALSE)
                        ELSE None
      [] v.t = "str" -> BooleanWord(toLowerCase(Trim(v.s)))
      [] OTHER -> None

RECURSIVE readBoolean(_, _)
readBoolean(record, keys) ==
  IF keys = <<>> THEN None
  ELSE LET parsed == parseBooleanValue(Get(record, keys[1]))
       IN IF IsSome(parsed) THEN parsed ELSE readBoolean(record, Tail(keys))

(* typeof value === "string" && value.trim() *)
NonBlank(value) == IsSome(value) /\ value[1].t = "str" /\ Trim(value[1].s) # <<>>

RECURSIVE readString(_, _)
readString(record, keys) ==
  IF keys = <<>> THEN None
  ELSE IF NonBlank(Get(record, keys[1]))
  THEN Some(Trim(record[keys[1]].s))
  ELSE readString(record, Tail(keys))

(* The finite number that one value yields in readNumber, if any: a number *)
(* as it is, a string through Number(value).                               *)
FiniteNumber(value) ==
  IF ~IsSome(value) THEN None
  ELSE IF value[1].t = "num" THEN Some(value[1].n)
  ELSE IF value[1].t = "str" THEN JsNumber(value[1].s)
  ELSE None

RECURSIVE readNumber(_, _)
readNumber(record, keys) ==
  IF keys = <<>> THEN None
  ELSE IF IsSome(FiniteNumber(Get(record, keys[1])))
  THEN FiniteNumber(Get(record, keys[1]))
  ELSE readNumber(record, Tail(keys))

(* Variant: the phrases for "none" are tried before the phrases for risk. *)
TextVerdictNoneFirst(normalized) ==
  IF \/ Includes(normalized, <<"l","o","w"," ","i","n","t","e","r","a","c","t","i","o","n">>)
     \/ Includes(normalized, <<"m","i","n","o","r"," ","i","n","t","e","r","a","c","t","i","o","n">>)
     \/ Includes(normalized, <<"r","e","l","a","t","i","v","e","l","y"," ","s","a","f","e">>)
  THEN Some(FALSE)
  ELSE IF \/ Includes(normalized, <<"n","o"," ","c","o","n","f","l","i","c","t">>)
          \/ Includes(normalized, <<"n","o"," ","i","n","t","e","r","a","c","t","i","o","n">>)
          \/ Includes(normalized, <<"c","o","m","p","a","t","i","b","l","e">>)
  THEN Some(FALSE)
  ELSE IF \/ Includes(normalized, <<"h","i","g","h"," ","i","n","t","e","r","a","c","t","i","o","n">>)
          \/ Includes(normalized, <<"m","o","d","e","r","a","t","e"," ","i","n","t","e","r","a","c","t","i","o","n">>)
          \/ Includes(normalized, <<"h","i","g","h"," ","r","i","s","k">>)
          \/ Includes(normalized, <<"m","o","d","e","r","a","t","e"," ","r","i","s","k">>)
          \/ Includes(normalized, <<"a","v","o","i","d"," ","t","a","k","i","n","g"," ","t","o","g","e","t","h","e","r">>)
          \/ Includes(normalized, <<"u","s","e"," ","c","a","u","t","i","o","n">>)
  THEN Some(TRUE)
  ELSE IF \/ Includes(normalized, <<"n","o","t"," ","s","a","f","e">>)
          \/ Includes(normalized, <<"u","n","s","a","f","e">>)
          \/ Includes(normalized, <<"h","a","s"," ","c","o","n","f","l","i","c","t">>)
          \/ Includes(normalized, <<"h","a","s"," ","i","n","t","e","r","a","c","t","i","o","n">>)
  THEN Some(TRUE)
  ELSE IF Includes(normalized, <<"c","o","n","f","l","i","c","t">>) \/ Includes(normalized, <<"i","n","t","e","r","a","c","t","i","o","n">>)
  THEN Some(TRUE)
  ELSE IF Includes(normalized, <<"s","a","f","e">>)
  THEN Some(FALSE)
  ELSE None

(* The body of parseBooleanFromText on the lowercased text. *)
TextVerdict(normalized) ==
  IF \/ Includes(normalized, <<"l","o","w"," ","i","n","t","e","r","a","c","t","i","o","n">>)
     \/ Includes(normalized, <<"m","i","n","o","r"," ","i","n","t","e","r","a","c","t","i","o","n">>)
     \/ Includes(normalized, <<"r","e","l","a","t","i","v","e","l","y"," ","s","a","f","e">>)
  THEN Some(FALSE)
  ELSE IF \/ Includes(normalized, <<"h","i","g","h"," ","i","n","t","e","r","a","c","t","i","o","n">>)
          \/ Includes(normalized, <<"m","o","d","e","r","a","t","e"," ","i","n","t","e","r","a","c","t","i","o","n">>)
          \/ Includes(normalized, <<"h","i","g","h"," ","r","i","s","k">>)
          \/ Includes(normalized, <<"m","o","d","e","r","a","t","e"," ","r","i","s","k">>)
          \/ Includes(normalized, <<"a","v","o","i","d"," ","t","a","k","i","n","g"," ","t","o","g","e","t","h","e","r">>)
          \/ Includes(normalized, <<"u","s","e"," ","c","a","u","t","i","o","n">>)
  THEN Some(TRUE)
  ELSE IF \/ Includes(normalized, <<"n","o"," ","c","o","n","f","l","i","c","t">>)
          \/ Includes(normalized, <<"n","o"," ","i","n","t","e","r","a","c","t","i","o","n">>)
          \/ Includes(normalized, <<"c","o","m","p","a","t","i","b","l","e">>)
  THEN Some(FALSE)
  ELSE IF \/ Includes(normalized, <<"n","o","t"," ","s","a","f","e">>)
          \/ Includes(normalized, <<"u","n","s","a","f","e">>)
          \/ Includes(normalized, <<"h","a","s"," ","c","o","n","f","l","i","c","t">>)
          \/ Includes(normalized, <<"h","a","s"," ","i","n","t","e","r","a","c","t","i","o","n">>)
  THEN Some(TRUE)
  ELSE IF Includes(normalized, <<"c","o","n","f","l","i","c","t">>) \/ Includes(normalized, <<"i","n","t","e","r","a","c","t","i","o","n">>)
  THEN Some(TRUE)
  ELSE IF Includes(normalized, <<"s","a","f","e">>)
  THEN Some(FALSE)
  ELSE None

parseBooleanFromText(text) == TextVerdict(toLowerCase(text))

SeverityWord(normalized) ==
  IF normalized = <<"m","i","n","o","r">> THEN Some("minor")
  ELSE IF normalized = <<"m","o","d","e","r","a","t","e">> \/ normalized = <<"m","e","d","i","u","m">> THEN Some("moderate")
  ELSE IF normalized = <<"m","a","j","o","r">> \/ normalized = <<"h","i","g","h">> \/ normalized = <<"s","e","v","e","r","e">>
  THEN Some("major")
  ELSE IF normalized = <<"c","o","n","t","r","a","i","n","d","i","c","a","t","e","d">> \/ normalized = <<"c","r","i","t","i","c","a","l">>
  THEN Some("contraindicated")
  ELSE None

normalizeSeverity(value) ==
  IF ~IsSome(value) \/ value = Some(<<>>) THEN None
  ELSE SeverityWord(toLowerCase(Trim(value[1])))

LevelWord(normalized) ==
  IF normalized = <<"h","i","g","h">> THEN Some([hasConflict |-> TRUE, severity |-> "major"])
  ELSE IF normalized = <<"m","o","d","e","r","a","t","e">>
  THEN Some([hasConflict |-> TRUE, severity |-> "moderate"])
  ELSE IF normalized = <<"l","o","w">> THEN Some([hasConflict |-> FALSE, severity |-> "minor"])
  ELSE IF normalized = <<"m","i","n","o","r">> THEN Some([hasConflict |-> FALSE, severity |-> "minor"])
  ELSE None

parseLevel(value) ==
  IF ~IsSome(value) \/ value = Some(<<>>) THEN None
  ELSE LevelWord(toLowerCase(Trim(value[1])))

LevelKeys == <<"interaction_level", "interactionLevel", "level", "risk_level", "riskLevel">>

ConflictKeys ==
  <<"conflict", "hasConflict", "has_conflict", "isConflict", "is_conflict",
    "interaction", "isInteraction", "is_interaction", "unsafe", "isUnsafe", "is_unsafe">>

StatusKeys == <<"status", "result", "prediction", "decision", "label">>

ReasonKeys == <<"reason", "message", "detail", "explanation", "notes">>

SeverityKeys == <<"severity", "risk", "riskLevel", "risk_level">>

SeparateKeys ==
  <<"canSeparateBySchedule", "can_separate_by_schedule", "canSeparate", "can_separate">>

HoursKeys == <<"minHoursApart", "min_hours_apart", "hoursApart", "hours_apart">>

NestedKeys == <<"result", "data", "prediction", "output">>

(* scopes = [root, ...the nested objects under result, data, prediction, output] *)
RECURSIVE NestedScopes(_, _)
NestedScopes(root, keys) ==
  IF keys = <<>> THEN <<>>
  ELSE LET nested == asRecord(Get(root, keys[1]))
       IN (IF IsSome(nested) THEN <<nested[1]>> ELSE <<>>) \o
          NestedScopes(root, Tail(keys))

ScopesOf(root) == <<root>> \o NestedScopes(root, NestedKeys)

(* The five let-variables of parseConflictResponse before the first scope. *)
Unset ==
  [hasConflict |-> None, reason |-> None, severity |-> None,
   canSeparateBySchedule |-> None, minHoursApart |-> None]

(* if (parsedLevel) { hasConflict and severity, each only when unset } *)
TakeLevel(acc, parsedLevel) ==
  IF ~IsSome(parsedLevel) THEN acc
  ELSE [acc EXCEPT
          !.hasConflict = IF IsSome(@) THEN @ ELSE Some(parsedLevel[1].hasConflict),
          !.severity = IF IsSome(@) THEN @ ELSE Some(parsedLevel[1].severity)]

(* Variant: a false verdict counts as unset, as under if (!hasConflict). *)
TakeConflictFalsy(acc, scope) ==
  IF IsSome(acc.hasConflict) /\ acc.hasConflict[1] THEN acc
  ELSE [acc EXCEPT !.hasConflict =
          IF IsSome(readBoolean(scope, ConflictKeys))
          THEN readBoolean(scope, ConflictKeys) ELSE acc.hasConflict]

(* if (hasConflict === undefined) hasConflict = readBoolean(scope, [...]) *)
TakeConflict(acc, scope) ==
  IF IsSome(acc.hasConflict) THEN acc
  ELSE [acc EXCEPT !.hasConflict = readBoolean(scope, ConflictKeys)]

(* if (hasConflict === undefined) { if (statusText) hasConflict = ... } *)
TakeStatus(acc, statusText) ==
  IF IsSome(acc.hasConflict) \/ ~IsSome(statusText) THEN acc
  ELSE [acc EXCEPT !.hasConflict = parseBooleanFromText(statusText[1])]

(* the four remaining fields, each read only while it is still unset *)
TakeFields(acc, scope) ==
  [acc EXCEPT
     !.reason = IF IsSome(@) THEN @ ELSE readString(scope, ReasonKeys),
     !.severity = IF IsSome(@) THEN @
                  ELSE normalizeSeverity(readString(scope, SeverityKeys)),
     !.canSeparateBySchedule = IF IsSome(@) THEN @
                               ELSE readBoolean(scope, SeparateKeys),
     !.minHoursApart = IF IsSome(@) THEN @ ELSE readNumber(scope, HoursKeys)]

(* Variant: the boolean fields are read before the interaction level. *)
ScanScopeConflictFirst(acc, scope) ==
  TakeFields(
    TakeStatus(
      TakeLevel(TakeConflict(acc, scope), parseLevel(readString(scope, LevelKeys))),
      readString(scope, StatusKeys)),
    scope)

(* One iteration of the loop over the scopes. *)
ScanScope(acc, scope) ==
  TakeFields(
    TakeStatus(
      TakeConflict(TakeLevel(acc, parseLevel(readString(scope, LevelKeys))), scope),
      readString(scope, StatusKeys)),
    scope)

RECURSIVE ScanScopes(_, _)
ScanScopes(acc, scopes) ==
  IF scopes = <<>> THEN acc
  ELSE ScanScopes(ScanScope(acc, scopes[1]), Tail(scopes))

(* { hasConflict }: a ParsedConflict with every optional field absent *)
OnlyConflict(hasConflict) ==
  [hasConflict |-> hasConflict, severity |-> None, reason |-> None,
   canSeparateBySchedule |-> None, minHoursApart |-> None]

(* x ?? false *)
OrFalse(x) == IF IsSome(x) THEN x[1] ELSE FALSE

(* The object that parseConflictResponse returns after the loop. *)
Scanned(acc) ==
  [hasConflict |-> OrFalse(acc.hasConflict),
   severity |-> acc.severity,
   reason |-> acc.reason,
   canSeparateBySchedule |-> Some(OrFalse(acc.canSeparateBySchedule)),
   minHoursApart |-> acc.minHoursApart]

RECURSIVE parseConflictResponse(_)
parseConflictResponse(response) ==
  CASE response.t = "bool" -> OnlyConflict(response.b)
    [] response.t = "str" ->
         [OnlyConflict(OrFalse(parseBooleanFromText(response.s)))
            EXCEPT !.reason = Some(response.s)]
    [] response.t = "arr" ->
         IF Len(response.a) = 0 THEN OnlyConflict(FALSE)
         ELSE parseConflictResponse(response.a[1])
    [] response.t = "obj" ->
         Scanned(ScanScopes(Unset, ScopesOf(response.o)))
    [] OTHER -> OnlyConflict(FALSE)

(* Variant: a separable interaction is not told apart from the others. *)
ExternalRecommendationNoSeparate(interaction) ==
  LET medA == interaction.medications[1]
      medB == interaction.medications[2]
  IN IF interaction.severity = "contraindicated"
     THEN [type |-> "avoid_combination",
           title |-> <<"A","v","o","i","d"," ","c","o","m","b","i","n","i","n","g"," ">> \o medA \o <<" ","a","n","d"," ">> \o medB,
           details |-> interaction.reason]
     ELSE [type |-> "replace_medication",
           title |-> <<"R","e","v","i","e","w"," ">> \o medA \o <<" ","+"," ">> \o medB,
           details |-> interaction.reason]

(* The recommendation that buildRecommendations pushes for one interaction. *)
ExternalRecommendationFor(interaction) ==
  LET medA == interaction.medications[1]
      medB == interaction.medications[2]
  IN IF interaction.severity = "contraindicated"
     THEN [type |-> "avoid_combination",
           title |-> <<"A","v","o","i","d"," ","c","o","m","b","i","n","i","n","g"," ">> \o medA \o <<" ","a","n","d"," ">> \o medB,
           details |-> interaction.reason]
     ELSE IF interaction.canSeparateBySchedule /\ TruthyNum(interaction.minHoursApart)
     THEN [type |-> "keep_and_separate",
           title |-> <<"S","e","p","a","r","a","t","e"," ">> \o medA \o <<" ","a","n","d"," ">> \o medB,
           details |-> <<"K","e","e","p"," ","a","t"," ","l","e","a","s","t"," ">> \o NatToStr(interaction.minHoursApart[1]) \o
                       <<" ","h","o","u","r","s"," ","a","p","a","r","t","."," ">> \o interaction.reason]
     ELSE [type |-> "replace_medication",
           title |-> <<"R","e","v","i","e","w"," ">> \o medA \o <<" ","+"," ">> \o medB,
           details |-> interaction.reason]

(* Variant: every major finding is unsafe, separable or not. *)
computeSafetyAnyMajor(found) ==
  ~(\E k \in 1..Len(found) :
      \/ found[k].severity = "contraindicated"
      \/ found[k].severity = "major")

buildRecommendations(found) ==
  [k \in 1..Len(found) |-> ExternalRecommendationFor(found[k])]

computeSafety(found) ==
  ~(\E k \in 1..Len(found) :
      \/ found[k].severity = "contraindicated"
      \/ found[k].severity = "major" /\ ~found[k].canSeparateBySchedule)

(* The body of a 2xx response is a text; it is either a text that          *)
(* JSON.parse decodes, given here by the decoded value, or a text that     *)
(* JSON.parse rejects, given by its characters.  data is the decoded value *)
(* or else the raw text.                                                   *)
DecodeBody(body) ==
  IF body.kind = "json" THEN body.value ELSE JStr(body.raw)

GenericReason == <<"P","o","t","e","n","t","i","a","l"," ","i","n","t","e","r","a","c","t","i","o","n"," ","d","e","t","e","c","t","e","d"," ","b","y"," ","t","h","e"," ","e","x","t","e","r","n","a","l"," ","A","I"," ","m","o","d","e","l",".">>

(* Variant: a conflict without a severity is recorded as moderate. *)
ExternalFindingModerateDefault(medA, medB, parsed) ==
  [medications |-> <<medA.name, medB.name>>,
   severity |-> IF IsSome(parsed.severity) THEN parsed.severity[1] ELSE "moderate",
   reason |-> IF IsSome(parsed.reason) THEN parsed.reason[1] ELSE GenericReason,
   canSeparateBySchedule |->
     IF IsSome(parsed.canSeparateBySchedule)
     THEN parsed.canSeparateBySchedule[1] ELSE FALSE,
   minHoursApart |->
     IF /\ IsSome(parsed.canSeparateBySchedule)
        /\ parsed.canSeparateBySchedule[1]
        /\ TruthyNum(parsed.minHoursApart)
     THEN LET rounded == MathRound(parsed.minHoursApart[1])
          IN Some(IF rounded > 1 THEN rounded ELSE 1)
     ELSE None,
   alternatives |-> None]

(* The finding that collectExternalInteractions pushes for a conflict. *)
ExternalFinding(medA, medB, parsed) ==
  [medications |-> <<medA.name, medB.name>>,
   severity |-> IF IsSome(parsed.severity) THEN parsed.severity[1] ELSE "major",
   reason |-> IF IsSome(parsed.reason) THEN parsed.reason[1] ELSE GenericReason,
   canSeparateBySchedule |->
     IF IsSome(parsed.canSeparateBySchedule)
     THEN parsed.canSeparateBySchedule[1] ELSE FALSE,
   minHoursApart |->
     IF /\ IsSome(parsed.canSeparateBySchedule)
        /\ parsed.canSeparateBySchedule[1]
        /\ TruthyNum(parsed.minHoursApart)
     THEN LET rounded == MathRound(parsed.minHoursApart[1])
          IN Some(IF rounded > 1 THEN rounded ELSE 1)
     ELSE None,
   alternatives |-> None]

(* Variant: the schedule is optimized again for the external interactions. *)
MergedResultRescheduled(localResult, externalInteractions) ==
  [isSafe |-> computeSafety(externalInteractions),
   interactions |-> externalInteractions,
   schedule |-> optimizeSchedule(localResult.schedule, externalInteractions),
   recommendations |-> buildRecommendations(externalInteractions)]

(* { ...local, isSafe, interactions, recommendations } *)
MergedResult(localResult, externalInteractions) ==
  [isSafe |-> computeSafety(externalInteractions),
   interactions |-> externalInteractions,
   schedule |-> localResult.schedule,
   recommendations |-> buildRecommendations(externalInteractions)]

----------------------------------------------------------------------------
(* Requests and external responses *)

Med(name, frequencyPerDay) == [name |-> name, frequencyPerDay |-> frequencyPerDay]

(* The requests the API layer lets through: 2 to 4 medications. *)
RequestsOver(pool) ==
  UNION {[1..n -> pool] : n \in MinMedications..MaxMedications}

ExternalPool ==
  {Med(<<"a","s","p","i","r","i","n">>, 1), Med(<<"W","a","r","f","a","r","i","n">>, 1), Med(<<"c","a","l","c","i","u","m">>, 2),
   Med(<<"l","e","v","o","t","h","y","r","o","x","i","n","e">>, 1), Med(<<"c","l","a","r","i","t","h","r","o","m","y","c","i","n">>, 2), Med(<<"s","i","m","v","a","s","t","a","t","i","n">>, 1)}

(* The requests of the external-check runs: every request of fewer than *)
(* MaxMedications medications over the pool, and one request of         *)
(* MaxMedications medications.                                          *)
ExternalRequests ==
  UNION {[1..n -> ExternalPool] : n \in MinMedications..(MaxMedications - 1)}
  \cup {<<Med(<<"a","s","p","i","r","i","n">>, 1), Med(<<"W","a","r","f","a","r","i","n">>, 1),
          Med(<<"c","a","l","c","i","u","m">>, 2), Med(<<"l","e","v","o","t","h","y","r","o","x","i","n","e">>, 1)>>}

(* The requests of the local-analysis runs. *)
LocalPool ==
  {Med(<<"a","s","p","i","r","i","n">>, 1), Med(<<"W","a","r","f","a","r","i","n">>, 2),
   Med(<<"c","l","a","r","i","t","h","r","o","m","y","c","i","n">>, 2), Med(<<"S","I","M","V","A","S","T","A","T","I","N">>, 1),
   Med(<<"c","a","l","c","i","u","m">>, 2), Med(<<"C","a","l","c","i","u","m">>, 4),
   Med(<<"l","e","v","o","t","h","y","r","o","x","i","n","e">>, 1), Med(<<"l","e","v","o","t","h","y","r","o","x","i","n","e">>, 3),
   Med(<<"c","i","p","r","o","f","l","o","x","a","c","i","n">>, 2), Med(<<"I","r","o","n">>, 1), Med(<<"i","r","o","n">>, 4),
   Med(<<"z","i","n","c">>, 3)}

(* Three spellings of calcium, each with levothyroxine: the third finding *)
(* meets the levothyroxine slot as the first two left it.                 *)
SkippedShiftRequest ==
  <<Med(<<"c","a","l","c","i","u","m">>, 1), Med(<<"C","a","l","c","i","u","m">>, 3), Med(<<"c","A","l","c","i","u","m">>, 4),
    Med(<<"l","e","v","o","t","h","y","r","o","x","i","n","e">>, 1)>>

LocalRequests == RequestsOver(LocalPool) \cup {SkippedShiftRequest}

JsonBody(value) == [kind |-> "json", value |-> value]

TextBody(raw) == [kind |-> "text", raw |-> raw]

ExternalBodies ==
  {JsonBody(JBool(TRUE)),
   TextBody(<<"n","o"," ","c","o","n","f","l","i","c","t"," ","f","o","u","n","d">>),
   TextBody(<<"U","s","e"," ","c","a","u","t","i","o","n"," ","w","h","e","n"," ","c","o","m","b","i","n","i","n","g"," ","t","h","e","s","e"," ","d","r","u","g","s">>),
   JsonBody(JObj([conflict |-> JStr(<<"y","e","s">>), severity |-> JStr(<<"c","r","i","t","i","c","a","l">>),
                  reason |-> JStr(<<"Q","T"," ","p","r","o","l","o","n","g","a","t","i","o","n">>)])),
   JsonBody(JObj([data |-> JObj([unsafe |-> JNum(10), severity |-> JStr(<<"h","i","g","h">>),
                                 can_separate |-> JStr(<<"y","e","s">>),
                                 hours_apart |-> JStr(<<"2",".","5">>)])])),
   JsonBody(JObj([hasConflict |-> JBool(TRUE), severity |-> JStr(<<"m","i","n","o","r">>)])),
   JsonBody(JObj([status |-> JStr(<<"n","o"," ","c","o","n","f","l","i","c","t"," ","f","o","u","n","d">>)])),
   JsonBody(JArr(<<>>))}

(* The record of a patient just added: no condition, no analysis. *)
NoRecord ==
  [condition |-> None, analysis |-> None, medications |-> None,
   conditionsHistory |-> <<>>, medicalHistory |-> <<>>]

(* The two objects of module scope that every analysis reads. *)
SharedTables == [rules |-> rules, baseTimes |-> baseTimes]

----------------------------------------------------------------------------
(* The request as a state machine *)

Init ==
  /\ entry = "none"
  /\ endpoint \in {"none", "ok", "malformed"}
  /\ payload \in ExternalRequests
  /\ pc = "idle"
  /\ local = None
  /\ i = 0
  /\ j = 0
  /\ interactions = <<>>
  /\ calls = <<>>
  /\ outcomes = <<>>
  /\ stalled = FALSE
  /\ result = None
  /\ raised = FALSE
  /\ warnings = 0
  /\ tables = SharedTables
  /\ patient = NoRecord

(* Variant: the catch block returns what had been collected before the failure. *)
CatchReturnsPartial(localResult) ==
  /\ warnings' = warnings + 1
  /\ result' = Some(MergedResult(localResult, interactions))
  /\ raised' = raised
  /\ pc' = "done"

(* The catch block of analyzePrescriptionWithExternalCheck: warn, return local. *)
CatchExternalFailure(localResult) ==
  /\ warnings' = warnings + 1
  /\ result' = Some(localResult)
  /\ raised' = raised
  /\ pc' = "done"

(* The try block returns the merged result. *)
ReturnMerged(localResult, found) ==
  /\ result' = Some(MergedResult(localResult, found))
  /\ pc' = "done"
  /\ UNCHANGED <<raised, warnings>>

(* The loops of collectExternalInteractions arrive at indices (a, b) with   *)
(* the array found: past the last pair the function returns.  Otherwise     *)
(* checkPairConflict runs: with no endpoint it answers "no conflict" for    *)
(* this and every later pair without any call, so the loops run to their    *)
(* end; else it builds the URL (which throws for a malformed endpoint) and  *)
(* issues the fetch, and the request waits for it.                          *)
EnterLoop(localResult, found, a, b) ==
  /\ i' = IF endpoint = "none" THEN Len(payload) ELSE a
  /\ j' = IF endpoint = "none" THEN Len(payload) + 1 ELSE b
  /\ interactions' = found
  /\ IF a >= Len(payload) \/ endpoint = "none"
     THEN ReturnMerged(localResult, found) /\ UNCHANGED calls
     ELSE IF endpoint = "malformed"
     THEN CatchExternalFailure(localResult) /\ UNCHANGED calls
     ELSE /\ calls' = Append(calls, <<a, b>>)
          /\ pc' = "fetch"
          /\ UNCHANGED <<result, raised, warnings>>

(* Variant: the inner loop restarts at the first medication. *)
NextIndicesFromFirst(a, b, n) ==
  IF b < n THEN <<a, b + 1>>
  ELSE IF a + 2 <= n THEN <<a + 1, 1>>
  ELSE <<n, n + 1>>

(* The indices after (a, b): j += 1, and when j runs out, i += 1, j = i + 1; *)
(* i = medications.length when both loops are over.                          *)
NextIndices(a, b, n) ==
  IF b < n THEN <<a, b + 1>>
  ELSE IF a + 2 <= n THEN <<a + 1, a + 2>>
  ELSE <<n, n + 1>>

(* The caller invokes analyzePrescription. *)
CallAnalyzePrescription ==
  /\ pc = "idle"
  /\ entry' = "local"
  /\ result' = Some(analyzePrescription(payload))
  /\ pc' = "done"
  /\ UNCHANGED <<patient, tables, endpoint, payload, local, i, j, interactions, calls, outcomes,
                 stalled, raised, warnings>>

(* Variant: the early return for a missing endpoint is left out. *)
AfterLocalUnguarded(localResult) ==
  /\ local' = Some(localResult)
  /\ EnterLoop(localResult, <<>>, 1, 2)

(* analyzePrescriptionWithExternalCheck after const local = ...: return *)
(* local when no endpoint is configured, else enter the try block.      *)
AfterLocal(localResult) ==
  /\ local' = Some(localResult)
  /\ IF endpoint = "none"
     THEN /\ result' = Some(localResult)
          /\ pc' = "done"
          /\ UNCHANGED <<i, j, interactions, calls, raised, warnings>>
     ELSE EnterLoop(localResult, <<>>, 1, 2)

(* The caller invokes analyzePrescriptionWithExternalCheck, which runs up *)
(* to its first await or to its return.                                   *)
CallAnalyzeWithExternalCheck ==
  /\ pc = "idle"
  /\ entry' = "external"
  /\ AfterLocal(analyzePrescription(payload))
  /\ UNCHANGED <<patient, tables, endpoint, payload, outcomes, stalled>>

(* await fetch(...) resolves with a response of some status. *)
FetchResolves(ok) ==
  /\ pc = "fetch"
  /\ ~stalled
  /\ IF ok
     THEN /\ pc' = "text"
          /\ UNCHANGED <<outcomes, result, raised, warnings>>
     ELSE /\ outcomes' = Append(outcomes, "failed")
          /\ CatchExternalFailure(local[1])
  /\ UNCHANGED <<patient, tables, entry, endpoint, payload, local, i, j, interactions, calls, stalled>>

(* Variant: a timeout rejects the fetch that the collaborator never answers. *)
FetchRejectsOrTimesOut ==
  /\ pc = "fetch"
  /\ outcomes' = Append(outcomes, "failed")
  /\ CatchExternalFailure(local[1])
  /\ UNCHANGED <<patient, tables, entry, endpoint, payload, local, i, j, interactions, calls, stalled>>

(* await fetch(...) rejects: a network error. *)
FetchRejects ==
  /\ pc = "fetch"
  /\ ~stalled
  /\ outcomes' = Append(outcomes, "failed")
  /\ CatchExternalFailure(local[1])
  /\ UNCHANGED <<patient, tables, entry, endpoint, payload, local, i, j, interactions, calls, stalled>>

(* checkPairConflict returns parsed for the pair (i, j): the loop pushes a *)
(* finding when parsed.hasConflict and moves on to the pair next.         *)
PairChecked(parsed, next) ==
  /\ outcomes' = Append(outcomes, IF parsed.hasConflict THEN "conflict" ELSE "clear")
  /\ EnterLoop(local[1],
               IF parsed.hasConflict
               THEN Append(interactions, ExternalFinding(payload[i], payload[j], parsed))
               ELSE interactions,
               next[1], next[2])

(* await response.text() resolves: checkPairConflict returns the parsed *)
(* conflict and the loop goes on to the next pair.                      *)
TextResolves(body) ==
  /\ pc = "text"
  /\ ~stalled
  /\ PairChecked(parseConflictResponse(DecodeBody(body)), NextIndices(i, j, Len(payload)))
  /\ UNCHANGED <<patient, tables, entry, endpoint, payload, local, stalled>>

(* await response.text() rejects: the body stream broke. *)
TextRejects ==
  /\ pc = "text"
  /\ ~stalled
  /\ outcomes' = Append(outcomes, "failed")
  /\ CatchExternalFailure(local[1])
  /\ UNCHANGED <<patient, tables, entry, endpoint, payload, local, i, j, interactions, calls, stalled>>

(* The collaborator never answers the outstanding call.  Nothing in the *)
(* request reacts: no timer or abort signal is attached to the fetch.   *)
Stall ==
  /\ pc \in {"fetch", "text"}
  /\ ~stalled
  /\ stalled' = TRUE
  /\ UNCHANGED <<patient, tables, entry, endpoint, payload, pc, local, i, j, interactions, calls,
                 outcomes, result, raised, warnings>>

Next ==
  \/ CallAnalyzePrescription
  \/ CallAnalyzeWithExternalCheck
  \/ \E ok \in BOOLEAN : FetchResolves(ok)
  \/ FetchRejects
  \/ \E body \in ExternalBodies : TextResolves(body)
  \/ TextRejects
  \/ Stall

Spec == Init /\ [][Next]_vars

(* The local analysis alone, over a wider set of requests. *)
InitLocal ==
  /\ entry = "none"
  /\ endpoint = "none"
  /\ payload \in LocalRequests
  /\ pc = "idle"
  /\ local = None
  /\ i = 0
  /\ j = 0
  /\ interactions = <<>>
  /\ calls = <<>>
  /\ outcomes = <<>>
  /\ stalled = FALSE
  /\ result = None
  /\ raised = FALSE
  /\ warnings = 0
  /\ tables = SharedTables
  /\ patient = NoRecord

NextLocal == CallAnalyzePrescription

SpecLocal == InitLocal /\ [][NextLocal]_vars

----------------------------------------------------------------------------
(* Two requests in flight at once.  The event loop runs one request at a   *)
(* time up to its next await, so a step is one request's move from one     *)
(* await (or from its start) to the next await or to its return.  Every    *)
(* per-request variable is a function over Peers; calls is the one log of  *)
(* the collaborator, with entries <<request, i, j>>; outcomes[r] lists     *)
(* what request r heard, in order.                                         *)

Peers == 1..2

PairRequests ==
  {<<Med(<<"c","a","l","c","i","u","m">>, 2), Med(<<"l","e","v","o","t","h","y","r","o","x","i","n","e">>, 1)>>,
   <<Med(<<"W","a","r","f","a","r","i","n">>, 1), Med(<<"a","s","p","i","r","i","n">>, 1), Med(<<"l","e","v","o","t","h","y","r","o","x","i","n","e">>, 1)>>}

PairBodies ==
  {JsonBody(JBool(TRUE)),
   TextBody(<<"n","o"," ","c","o","n","f","l","i","c","t"," ","f","o","u","n","d">>),
   JsonBody(JObj([data |-> JObj([unsafe |-> JNum(10), severity |-> JStr(<<"h","i","g","h">>),
                                 can_separate |-> JStr(<<"y","e","s">>),
                                 hours_apart |-> JStr(<<"2",".","5">>)])]))}

(* What a request hears when a call fails: a rejected fetch, a status *)
(* outside 2xx, or a broken body.                                     *)
Failed == [kind |-> "failed"]

(* buildInitialSchedule, reading the default-times table as it stands. *)
PeerSchedule(shared, medications) ==
  [k \in 1..Len(medications) |->
     [medication |-> medications[k].name,
      times |-> shared.baseTimes[medications[k].frequencyPerDay],
      note |-> None]]

(* const rule = rules[key], reading the rule base as it stands. *)
PeerLookup(shared, a, b, key) ==
  IF key \in DOMAIN shared.rules
  THEN <<FindingOf(a, b, shared.rules[key])>> ELSE <<>>

RECURSIVE PeerDetectFrom(_, _, _)
PeerDetectFrom(shared, medications, pairs) ==
  IF pairs = <<>> THEN <<>>
  ELSE PeerLookup(shared, medications[pairs[1][1]], medications[pairs[1][2]],
                  toPairKey(medications[pairs[1][1]].name,
                            medications[pairs[1][2]].name)) \o
       PeerDetectFrom(shared, medications, Tail(pairs))

(* analyzePrescription as one request runs it against the shared tables. *)
PeerAnalysis(shared, medications) ==
  AnalysisResult(PeerDetectFrom(shared, medications, IndexPairs(Len(medications))),
                 PeerSchedule(shared, medications))

(* Variant: the slots hold the table's own arrays and the optimizer *)
(* writes the moved times into them.                                *)
TablesAfterAliased(shared, medications, schedule) ==
  [shared EXCEPT !.baseTimes =
     [f \in DOMAIN shared.baseTimes |->
        IF \E k \in 1..Len(medications) : medications[k].frequencyPerDay = f
        THEN schedule[CHOOSE k \in 1..Len(medications) :
                        medications[k].frequencyPerDay = f].times
        ELSE shared.baseTimes[f]]]

(* The shared tables after an analysis of medications that returned        *)
(* schedule.  detectInteractions only reads rules; buildInitialSchedule    *)
(* copies each row of baseTimes ([...baseTimes[f]]) and optimizeSchedule   *)
(* copies every slot again, so each write of the optimizer (medB.times =,  *)
(* medB.note =) lands on an object of the request's own.                   *)
TablesAfter(shared, medications, schedule) == shared

InitPair ==
  /\ entry = "external"
  /\ endpoint \in {"none", "ok"}
  /\ payload \in [Peers -> PairRequests]
  /\ pc = [r \in Peers |-> "idle"]
  /\ local = [r \in Peers |-> None]
  /\ i = [r \in Peers |-> 0]
  /\ j = [r \in Peers |-> 0]
  /\ interactions = [r \in Peers |-> <<>>]
  /\ calls = <<>>
  /\ outcomes = [r \in Peers |-> <<>>]
  /\ stalled = FALSE
  /\ result = [r \in Peers |-> None]
  /\ raised = FALSE
  /\ warnings = 0
  /\ tables = SharedTables
  /\ patient = NoRecord

(* Request r arrives at indices (a, b) with the array found: it returns *)
(* the merged result past the last pair, and else issues the next call. *)
PeerEnterLoop(r, localResult, found, a, b) ==
  /\ i' = [i EXCEPT ![r] = a]
  /\ j' = [j EXCEPT ![r] = b]
  /\ interactions' = [interactions EXCEPT ![r] = found]
  /\ IF a >= Len(payload[r])
     THEN /\ result' = [result EXCEPT ![r] = Some(MergedResult(localResult, found))]
          /\ pc' = [pc EXCEPT ![r] = "done"]
          /\ UNCHANGED calls
     ELSE /\ calls' = Append(calls, <<r, a, b>>)
          /\ pc' = [pc EXCEPT ![r] = "await"]
          /\ UNCHANGED result

(* Request r after const local = analyzePrescription(payload). *)
PeerAfterLocal(r, localResult) ==
  /\ local' = [local EXCEPT ![r] = Some(localResult)]
  /\ tables' = TablesAfter(tables, payload[r], localResult.schedule)
  /\ IF endpoint = "none"
     THEN /\ result' = [result EXCEPT ![r] = Some(localResult)]
          /\ pc' = [pc EXCEPT ![r] = "done"]
          /\ UNCHANGED <<i, j, interactions, calls>>
     ELSE PeerEnterLoop(r, localResult, <<>>, 1, 2)

(* Request r starts: analyzePrescriptionWithExternalCheck runs up to its *)
(* first await or to its return.                                         *)
PeerCalls(r) ==
  /\ pc[r] = "idle"
  /\ PeerAfterLocal(r, PeerAnalysis(tables, payload[r]))
  /\ UNCHANGED <<patient, entry, endpoint, payload, outcomes, stalled, raised, warnings>>

(* checkPairConflict of request r returns parsed for its pair (i, j). *)
PeerPairChecked(r, parsed, next) ==
  PeerEnterLoop(r, local[r][1],
                IF parsed.hasConflict
                THEN Append(interactions[r],
                            ExternalFinding(payload[r][i[r]], payload[r][j[r]], parsed))
                ELSE interactions[r],
                next[1], next[2])

(* The call of request r is answered with a 2xx response of this body;  *)
(* the request runs on to its next await or to its return.  The awaits  *)
(* of fetch and of response.text() are taken as one: nothing of the     *)
(* request's state changes between them.                                *)
PeerHears(r, body) ==
  /\ pc[r] = "await"
  /\ outcomes' = [outcomes EXCEPT ![r] = Append(outcomes[r], body)]
  /\ PeerPairChecked(r, parseConflictResponse(DecodeBody(body)),
                     NextIndices(i[r], j[r], Len(payload[r])))
  /\ UNCHANGED <<patient, tables, entry, endpoint, payload, local, stalled, raised, warnings>>

(* The call of request r fails: the catch block warns and returns local. *)
PeerFails(r) ==
  /\ pc[r] = "await"
  /\ outcomes' = [outcomes EXCEPT ![r] = Append(outcomes[r], Failed)]
  /\ warnings' = warnings + 1
  /\ result' = [result EXCEPT ![r] = Some(local[r][1])]
  /\ pc' = [pc EXCEPT ![r] = "done"]
  /\ UNCHANGED <<patient, tables, entry, endpoint, payload, local, i, j, interactions, calls,
                 stalled, raised>>

NextPair ==
  \E r \in Peers :
    \/ PeerCalls(r)
    \/ \E body \in PairBodies : PeerHears(r, body)
    \/ PeerFails(r)

SpecPair == InitPair /\ [][NextPair]_vars

----------------------------------------------------------------------------
(* The normalizer on its own: one decoded response goes through            *)
(* parseConflictResponse and then through the loop body of                 *)
(* collectExternalInteractions.  payload is the decoded response, result   *)
(* the ParsedConflict, interactions the array after the loop body.         *)

(* An object with the key present for each value, or without the key. *)
Field(key, values) == {<<>>} \cup {key :> v : v \in values}

LevelChoices ==
  Field("interaction_level",
        {JStr(<<"h","i","g","h">>), JStr(<<"m","o","d","e","r","a","t","e">>), JStr(<<"l","o","w">>), JStr(<<"m","i","n","o","r">>),
         JStr(<<" ","H","I","G","H"," ">>), JStr(<<"u","n","k","n","o","w","n">>)})

ConflictChoices ==
  Field("conflict", {JBool(TRUE), JBool(FALSE), JNum(10), JNum(0), JNum(20),
                     JStr(<<"Y","e","s">>), JStr(<<" ","n"," ">>), JStr(<<"m","a","y","b","e">>)})
  \cup Field("unsafe", {JBool(TRUE), JStr(<<"0">>)})

StatusChoices ==
  Field("status", {JStr(<<"n","o"," ","c","o","n","f","l","i","c","t"," ","f","o","u","n","d">>), JStr(<<"U","s","e"," ","c","a","u","t","i","o","n">>),
                   JStr(<<"p","e","n","d","i","n","g">>)})
  \cup Field("label", {JStr(<<"u","n","s","a","f","e">>)})

(* One scope with a level, a conflict field and a status text. *)
VerdictObjects ==
  {JObj(l @@ c @@ t) : l \in LevelChoices, c \in ConflictChoices, t \in StatusChoices}

ScopePool ==
  {[conflict |-> JBool(FALSE), hours_apart |-> JNum(0), can_separate |-> JBool(FALSE)],
   [conflict |-> JBool(TRUE), hours_apart |-> JNum(30), can_separate |-> JBool(TRUE),
    reason |-> JStr(<<"f","i","r","s","t">>), severity |-> JStr(<<"m","i","n","o","r">>)],
   [level |-> JStr(<<"h","i","g","h">>), message |-> JStr(<<"s","e","c","o","n","d">>)],
   [status |-> JStr(<<"c","o","m","p","a","t","i","b","l","e">>), severity |-> JStr(<<"c","r","i","t","i","c","a","l">>),
    minHoursApart |-> JStr(<<"6">>)],
   [reason |-> JStr(<<" ">>), severity |-> JStr(<<"o","d","d">>), conflict |-> JNull]}

NestedPool ==
  {JObj([conflict |-> JBool(TRUE), hours_apart |-> JNum(40),
         can_separate |-> JBool(TRUE), reason |-> JStr(<<"t","h","i","r","d">>),
         severity |-> JStr(<<"m","o","d","e","r","a","t","e">>)]),
   JObj([level |-> JStr(<<"l","o","w">>), canSeparate |-> JStr(<<"n","o">>)])}

(* A root scope with nested values under the four nested keys. *)
ScopedObjects ==
  {JObj(root @@ a @@ b @@ c @@ d) :
     root \in ScopePool \cup {<<>>},
     a \in Field("result", NestedPool \cup {JStr(<<"h","a","s"," ","c","o","n","f","l","i","c","t">>)}),
     b \in Field("data", NestedPool),
     c \in Field("prediction", NestedPool \cup {JArr(<<>>)}),
     d \in Field("output", NestedPool)}

SeverityObjects ==
  {JObj(a @@ b @@ c @@ d) :
     a \in Field("severity", {JStr(<<>>), JStr(<<"u","n","k","n","o","w","n">>), JStr(<<"M","i","n","o","r">>),
                              JStr(<<"c","r","i","t","i","c","a","l">>), JNum(10)}),
     b \in Field("risk", {JStr(<<"h","i","g","h">>), JStr(<<"m","e","d","i","u","m">>), JStr(<<"b","o","g","u","s">>)}),
     c \in Field("riskLevel", {JStr(<<"s","e","v","e","r","e">>)}),
     d \in Field("risk_level", {JStr(<<"c","o","n","t","r","a","i","n","d","i","c","a","t","e","d">>)})}

HoursObjects ==
  {JObj([conflict |-> JBool(TRUE)] @@ a @@ b) :
     a \in Field("can_separate", {JBool(TRUE), JBool(FALSE), JStr(<<"y","e","s">>)}),
     b \in Field("hours_apart",
                 {JNum(0), JNum(-20), JNum(4), JNum(25), JNum(-25), JNum(120),
                  JStr(<<"3">>), JStr(<<"0">>), JStr(<<"-","1",".","5">>), JStr(<<"s","o","o","n">>),
                  JBool(TRUE)})}

Texts ==
  {<<"L","o","w"," ","i","n","t","e","r","a","c","t","i","o","n",","," ","t","h","o","u","g","h"," ","h","i","g","h"," ","r","i","s","k"," ","i","n"," ","t","h","e","o","r","y">>,
   <<"r","e","l","a","t","i","v","e","l","y"," ","s","a","f","e">>,
   <<"H","I","G","H"," ","R","I","S","K">>,
   <<"m","o","d","e","r","a","t","e"," ","i","n","t","e","r","a","c","t","i","o","n",";"," ","n","o"," ","c","o","n","f","l","i","c","t"," ","o","t","h","e","r","w","i","s","e">>,
   <<"U","s","e"," ","c","a","u","t","i","o","n"," ","w","h","e","n"," ","c","o","m","b","i","n","i","n","g"," ","t","h","e","s","e"," ","d","r","u","g","s">>,
   <<"a","v","o","i","d"," ","t","a","k","i","n","g"," ","t","o","g","e","t","h","e","r">>,
   <<"n","o"," ","c","o","n","f","l","i","c","t"," ","f","o","u","n","d">>,
   <<"N","o"," ","i","n","t","e","r","a","c","t","i","o","n",","," ","n","o","t"," ","s","a","f","e"," ","t","o"," ","a","s","s","u","m","e">>,
   <<"c","o","m","p","a","t","i","b","l","e">>,
   <<"n","o","t"," ","s","a","f","e">>,
   <<"u","n","s","a","f","e">>,
   <<"h","a","s"," ","c","o","n","f","l","i","c","t">>,
   <<"h","a","s"," ","i","n","t","e","r","a","c","t","i","o","n">>,
   <<"c","o","n","f","l","i","c","t">>,
   <<"d","r","u","g"," ","i","n","t","e","r","a","c","t","i","o","n">>,
   <<"s","a","f","e">>,
   <<"o","k">>,
   <<>>}

PlainResponses ==
  {JStr(t) : t \in Texts}
  \cup {JBool(TRUE), JBool(FALSE), JNull, JNum(10), JArr(<<>>),
        JArr(<<JStr(<<"u","n","s","a","f","e">>), JBool(FALSE)>>),
        JArr(<<JObj([interaction_level |-> JStr(<<"h","i","g","h">>)])>>)}

Responses ==
  VerdictObjects \cup ScopedObjects \cup SeverityObjects \cup HoursObjects
  \cup PlainResponses

(* The pair of medications the response is about. *)
CheckedPair == <<Med(<<"a","s","p","i","r","i","n">>, 1), Med(<<"W","a","r","f","a","r","i","n">>, 1)>>

InitNormalize ==
  /\ entry = "normalize"
  /\ endpoint = "ok"
  /\ payload \in Responses
  /\ pc = "idle"
  /\ local = None
  /\ i = 1
  /\ j = 2
  /\ interactions = <<>>
  /\ calls = <<>>
  /\ outcomes = <<>>
  /\ stalled = FALSE
  /\ result = None
  /\ raised = FALSE
  /\ warnings = 0
  /\ tables = SharedTables
  /\ patient = NoRecord

(* return parseConflictResponse(data) *)
CallParseConflictResponse ==
  /\ pc = "idle"
  /\ result' = Some(parseConflictResponse(payload))
  /\ pc' = "parsed"
  /\ UNCHANGED <<patient, tables, entry, endpoint, payload, local, i, j, interactions, calls,
                 outcomes, stalled, raised, warnings>>

(* if (!parsed.hasConflict) continue; interactions.push({...}) *)
PushIfConflict ==
  /\ pc = "parsed"
  /\ interactions' = IF result[1].hasConflict
                     THEN Append(interactions,
                                 ExternalFinding(CheckedPair[i], CheckedPair[j], result[1]))
                     ELSE interactions
  /\ pc' = "done"
  /\ UNCHANGED <<patient, tables, entry, endpoint, payload, local, i, j, calls, outcomes,
                 stalled, result, raised, warnings>>

NextNormalize == CallParseConflictResponse \/ PushIfConflict

SpecNormalize == InitNormalize /\ [][NextNormalize]_vars

----------------------------------------------------------------------------
(* Two condition assignments for one patient: POST                         *)
(* /doctor/patients/:id/condition.  The handler sets the condition, awaits *)
(* analyzePrescriptionWithExternalCheck and stores the analysis.  With an  *)
(* endpoint the awaited analysis waits for the collaborator, and other     *)
(* handlers run meanwhile; without one the promise is already resolved and *)
(* the handler goes on before any other request is taken up.  payload[r]   *)
(* is the body of request r, result[r] the analysis sent back.             *)

ConditionRequests ==
  {[condition |-> <<"h","y","p","o","t","h","y","r","o","i","d","i","s","m">>,
    medications |-> <<Med(<<"c","a","l","c","i","u","m">>, 2), Med(<<"l","e","v","o","t","h","y","r","o","x","i","n","e">>, 1)>>],
   [condition |-> <<"a","t","r","i","a","l"," ","f","i","b","r","i","l","l","a","t","i","o","n">>,
    medications |-> <<Med(<<"W","a","r","f","a","r","i","n">>, 1), Med(<<"a","s","p","i","r","i","n">>, 1)>>],
   [condition |-> <<"h","y","p","o","t","h","y","r","o","i","d","i","s","m">>,
    medications |-> <<Med(<<"l","e","v","o","t","h","y","r","o","x","i","n","e">>, 1), Med(<<"z","i","n","c">>, 3),
                      Med(<<"a","s","p","i","r","i","n">>, 1)>>]}

(* What the collaborator does with the calls of one analysis: it fails *)
(* the first call, or it gives every call this body.                   *)
Answers == {Failed} \cup PairBodies

(* The external interactions when every pair gets the same parsed answer. *)
AllPairsAnswered(medications, parsed) ==
  IF parsed.hasConflict
  THEN [k \in 1..Len(IndexPairs(Len(medications))) |->
          ExternalFinding(medications[IndexPairs(Len(medications))[k][1]],
                          medications[IndexPairs(Len(medications))[k][2]], parsed)]
  ELSE <<>>

(* The value that the awaited analysis resolves with. *)
AwaitedAnalysis(localResult, medications, answer) ==
  IF answer = Failed THEN localResult
  ELSE MergedResult(localResult,
                    AllPairsAnswered(medications,
                                     parseConflictResponse(DecodeBody(answer))))

(* db.js setCondition; timestamps and record ids are left out. *)
setCondition(p, condition) ==
  [p EXCEPT !.condition = Some(condition),
            !.conditionsHistory = Append(@, condition),
            !.medicalHistory = Append(@, "condition_recorded")]

(* db.js setAnalysis *)
setAnalysis(p, analysis) ==
  [p EXCEPT !.analysis = Some(analysis),
            !.medications =
              Some([k \in 1..Len(analysis.schedule) |->
                      Med(analysis.schedule[k].medication, 1)]),
            !.medicalHistory = Append(@, "medication_plan_generated")]

InitCondition ==
  /\ entry = "condition"
  /\ endpoint \in {"none", "ok"}
  /\ payload \in [Peers -> ConditionRequests]
  /\ pc = [r \in Peers |-> "idle"]
  /\ local = [r \in Peers |-> None]
  /\ i = 0
  /\ j = 0
  /\ interactions = <<>>
  /\ calls = <<>>
  /\ outcomes = <<>>
  /\ stalled = FALSE
  /\ result = [r \in Peers |-> None]
  /\ raised = FALSE
  /\ warnings = 0
  /\ tables = SharedTables
  /\ patient = NoRecord

(* setAnalysis(id, analysis); return res.json({ success, condition, analysis }) *)
StoreAndRespond(r, stored, analysis) ==
  /\ patient' = setAnalysis(stored, analysis)
  /\ result' = [result EXCEPT ![r] = Some(analysis)]
  /\ pc' = [pc EXCEPT ![r] = "done"]

(* The handler of request r from its start: setCondition, then the call of *)
(* the analysis, which computes the local result before its first await.   *)
HandlerStarts(r, localResult) ==
  /\ local' = [local EXCEPT ![r] = Some(localResult)]
  /\ IF endpoint = "none"
     THEN StoreAndRespond(r, setCondition(patient, payload[r].condition), localResult)
     ELSE /\ patient' = setCondition(patient, payload[r].condition)
          /\ pc' = [pc EXCEPT ![r] = "await"]
          /\ UNCHANGED result

PostCondition(r) ==
  /\ pc[r] = "idle"
  /\ HandlerStarts(r, analyzePrescription(payload[r].medications))
  /\ UNCHANGED <<tables, entry, endpoint, payload, i, j, interactions, calls, outcomes,
                 stalled, raised, warnings>>

(* The awaited analysis of request r resolves and the handler finishes. *)
AnalysisResolves(r, answer) ==
  /\ pc[r] = "await"
  /\ StoreAndRespond(r, patient,
                     AwaitedAnalysis(local[r][1], payload[r].medications, answer))
  /\ UNCHANGED <<tables, entry, endpoint, payload, local, i, j, interactions, calls,
                 outcomes, stalled, raised, warnings>>

NextCondition ==
  \E r \in Peers :
    \/ PostCondition(r)
    \/ \E answer \in Answers : AnalysisResolves(r, answer)

SpecCondition == InitCondition /\ [][NextCondition]_vars

----------------------------------------------------------------------------
(* The clock arithmetic on its own: timeDiffHours on two times, and        *)
(* formatTime after parseTime on one.  payload holds the two "HH:MM"       *)
(* texts; i and j are the same two times as minutes since midnight.        *)

TwoDigits(n) == <<DigitChars[(n \div 10) + 1], DigitChars[(n % 10) + 1]>>

(* The zero-padded text of the time that is this many minutes after midnight. *)
ClockText(minutes) == TwoDigits(minutes \div 60) \o <<":">> \o TwoDigits(minutes % 60)

(* Every minute of the day for the first time; for the second, the first *)
(* two minutes and the last minute of every hour.                        *)
SecondTimes == {m \in 0..(MinutesPerDay - 1) : m % 60 \in {0, 1, 59}}

InitTimes ==
  /\ entry = "none"
  /\ endpoint = "none"
  /\ i \in 0..(MinutesPerDay - 1)
  /\ j \in SecondTimes
  /\ payload = <<ClockText(i), ClockText(j)>>
  /\ pc = "idle"
  /\ local = None
  /\ interactions = <<>>
  /\ calls = <<>>
  /\ outcomes = <<>>
  /\ stalled = FALSE
  /\ result = None
  /\ raised = FALSE
  /\ warnings = 0
  /\ tables = SharedTables
  /\ patient = NoRecord

(* timeDiffHours(a, b), in minutes *)
CallTimeDiffHours ==
  /\ pc = "idle"
  /\ entry' = "timeDiffHours"
  /\ result' = Some(timeDiffHours(payload[1], payload[2]))
  /\ pc' = "done"
  /\ UNCHANGED <<patient, tables, endpoint, payload, local, i, j, interactions, calls,
                 outcomes, stalled, raised, warnings>>

(* formatTime(parseTime(t)) *)
CallFormatParsed ==
  /\ pc = "idle"
  /\ entry' = "formatTime"
  /\ result' = Some(formatTime(parseTime(payload[1])))
  /\ pc' = "done"
  /\ UNCHANGED <<patient, tables, endpoint, payload, local, i, j, interactions, calls,
                 outcomes, stalled, raised, warnings>>

NextTimes == CallTimeDiffHours \/ CallFormatParsed

SpecTimes == InitTimes /\ [][NextTimes]_vars

----------------------------------------------------------------------------
(* Properties *)

Returned == IsSome(result)

PairCheckFailed ==
  \/ \E k \in 1..Len(outcomes) : outcomes[k] = "failed"
  \/ entry = "external" /\ endpoint = "malformed"

(* The finding makes a result unsafe: contraindicated, or major and not *)
(* separable by schedule.                                               *)
MakesUnsafe(finding) ==
  \/ finding.severity = "contraindicated"
  \/ finding.severity = "major" /\ finding.canSeparateBySchedule = FALSE

(* C1: once an external pair check has failed, at whatever position and    *)
(* after whatever earlier answers, the request has returned, its result    *)
(* equals analyzePrescription of the same input in all four fields, and    *)
(* nothing was raised to the caller.                                       *)
C1_FailureReturnsLocal ==
  PairCheckFailed =>
    /\ pc = "done"
    /\ result = Some(analyzePrescription(payload))
    /\ ~raised

(* A later check fails after earlier checks reported conflicts, and the *)
(* local analysis had findings of its own.                              *)
C1_Witness ==
  /\ Len(outcomes) >= 3
  /\ outcomes[Len(outcomes)] = "failed"
  /\ interactions # <<>>
  /\ Returned
  /\ result[1].interactions # <<>>
  /\ result[1].interactions = analyzePrescription(payload).interactions

(* The external phase ran to its end without a failure. *)
MergedDone ==
  /\ entry = "external"
  /\ endpoint = "ok"
  /\ pc = "done"
  /\ ~PairCheckFailed

(* The calls, in order, whose answer was normalized to a conflict. *)
ConflictCalls ==
  LET positions == [k \in 1..Len(outcomes) |-> k]
      hits == SelectSeq(positions, LAMBDA k : outcomes[k] = "conflict")
  IN [m \in 1..Len(hits) |-> calls[hits[m]]]

(* C2: when every external check was answered with a 2xx response, the     *)
(* result's interactions are the external interaction set (one per pair    *)
(* answered with a conflict, in order), isSafe and the recommendations are *)
(* derived from that set alone, and the schedule is the schedule of the    *)
(* local analysis; with no external conflict the result is safe with no    *)
(* interactions and no recommendations.                                    *)
C2_MergeReplacesAllButSchedule ==
  MergedDone =>
    /\ Returned
    /\ LET r == result[1] IN
       /\ r.interactions = interactions
       /\ Len(r.interactions) = Len(ConflictCalls)
       /\ \A m \in 1..Len(ConflictCalls) :
            r.interactions[m].medications =
              <<payload[ConflictCalls[m][1]].name, payload[ConflictCalls[m][2]].name>>
       /\ r.isSafe = ~(\E m \in 1..Len(r.interactions) : MakesUnsafe(r.interactions[m]))
       /\ r.recommendations = buildRecommendations(r.interactions)
       /\ r.schedule = analyzePrescription(payload).schedule
       /\ (ConflictCalls = <<>> =>
             r.interactions = <<>> /\ r.recommendations = <<>> /\ r.isSafe)

(* A merged result with external conflicts, one of them separable, over a *)
(* local schedule that the optimizer had annotated.                       *)
C2_Witness ==
  /\ MergedDone
  /\ Len(payload) = MaxMedications
  /\ Len(result[1].interactions) >= 2
  /\ \E m \in 1..Len(result[1].interactions) :
       result[1].interactions[m].canSeparateBySchedule
  /\ \E k \in 1..Len(payload) : IsSome(result[1].schedule[k].note)
  /\ ~analyzePrescription(payload).isSafe

(* C3: with no endpoint configured the external-aware entry point issues *)
(* no call and returns the result of analyzePrescription.                *)
C3_NoEndpointIsLocal ==
  (entry = "external" /\ endpoint = "none") =>
    /\ calls = <<>>
    /\ pc = "done"
    /\ result = Some(analyzePrescription(payload))

C3_Witness ==
  /\ entry = "external"
  /\ endpoint = "none"
  /\ Len(payload) = MaxMedications
  /\ Returned
  /\ result[1].interactions # <<>>
  /\ ~result[1].isSafe

(* C4: in every returned result isSafe is false exactly when the result's *)
(* own interactions hold a contraindicated finding or a major finding     *)
(* that is not separable by schedule.                                     *)
C4_IsSafeIffNoUnsafeFinding ==
  Returned =>
    (result[1].isSafe = FALSE <=>
       \E k \in 1..Len(result[1].interactions) : MakesUnsafe(result[1].interactions[k]))

(* A merged result that is safe although it holds a separable major and a *)
(* minor finding.                                                         *)
C4_Witness ==
  /\ MergedDone
  /\ result[1].isSafe
  /\ \E k \in 1..Len(result[1].interactions) :
       /\ result[1].interactions[k].severity = "major"
       /\ result[1].interactions[k].canSeparateBySchedule
  /\ \E k \in 1..Len(result[1].interactions) :
       result[1].interactions[k].severity = "minor"

(* (a, b) comes before (c, d) in the order of the index pairs. *)
PairBefore(p, q) == p[1] < q[1] \/ (p[1] = q[1] /\ p[2] < q[2])

(* C5: the calls issued are an initial part of the enumeration of the     *)
(* pairs i < j in index order, each pair once; at most one call is        *)
(* outstanding; only the last call issued can have failed (no call after  *)
(* a failure, no retry); there are at most C(n,2) <= 6 calls.             *)
C5_CallsArePrefixInOrder ==
  LET n == Len(payload)
      allPairs == {p \in (1..n) \X (1..n) : p[1] < p[2]}
  IN /\ \A k \in 1..Len(calls) :
          /\ calls[k] \in allPairs
          /\ {q \in allPairs : PairBefore(q, calls[k])} = {calls[m] : m \in 1..(k-1)}
     /\ Len(outcomes) <= Len(calls)
     /\ Len(calls) <= Len(outcomes) + 1
     /\ \A k \in 1..Len(outcomes) : outcomes[k] = "failed" => k = Len(calls)
     /\ Len(calls) <= (n * (n - 1)) \div 2
     /\ Len(calls) <= 6

C5_Witness ==
  /\ Len(payload) = MaxMedications
  /\ Len(calls) = 6
  /\ Len(outcomes) = 6
  /\ pc = "done"

(* C6: a request whose outstanding call is never answered has no result, *)
(* neither merged nor local; a request that has returned has had every   *)
(* call it issued answered.                                              *)
C6_StalledCallBlocksRequest ==
  /\ stalled => (~Returned /\ pc # "done" /\ Len(calls) = Len(outcomes) + 1)
  /\ Returned => Len(outcomes) = Len(calls)

(* The third call is the one that is never answered. *)
C6_Witness ==
  /\ stalled
  /\ Len(calls) = 3
  /\ interactions # <<>>
  /\ ~Returned

(* The index pairs i < j of a request whose canonical key has a rule. *)
RulePairs(medications) ==
  {p \in (1..Len(medications)) \X (1..Len(medications)) :
     /\ p[1] < p[2]
     /\ toPairKey(medications[p[1]].name, medications[p[2]].name) \in DOMAIN rules}

(* The k-th pair of a set of index pairs in index order. *)
KthPair(pairs, k) ==
  CHOOSE p \in pairs : Cardinality({q \in pairs : PairBefore(q, p)}) = k - 1

(* C7: the findings of analyzePrescription are one finding for each index  *)
(* pair i < j whose canonical key has a rule, in index order, with the pair *)
(* of names as given and the rule's severity, reason, separability and     *)
(* minimum gap; a pair without a rule gives no finding and no error.       *)
C7_FindingsAreRulePairsInOrder ==
  (entry = "local" /\ pc = "done") =>
    /\ Returned
    /\ LET found == result[1].interactions
           hits == RulePairs(payload)
       IN /\ Len(found) = Cardinality(hits)
          /\ \A k \in 1..Len(found) :
               LET p == KthPair(hits, k)
                   a == payload[p[1]].name
                   b == payload[p[2]].name
                   rule == rules[toPairKey(a, b)]
               IN /\ found[k].medications = <<a, b>>
                  /\ found[k].severity = rule.severity
                  /\ found[k].reason = rule.reason
                  /\ found[k].canSeparateBySchedule = rule.canSeparateBySchedule
                  /\ found[k].minHoursApart = rule.minHoursApart

(* Four medications, some pairs with a rule and some without, one pair *)
(* given in the opposite order of its key and in another letter case.  *)
C7_Witness ==
  /\ entry = "local"
  /\ Returned
  /\ Len(payload) = MaxMedications
  /\ Len(result[1].interactions) = 2
  /\ result[1].interactions[1].medications = <<<<"W","a","r","f","a","r","i","n">>, <<"a","s","p","i","r","i","n">>>>
  /\ result[1].interactions[2].severity = "contraindicated"

UpperChar(c) ==
  IF \E k \in 1..26 : LowerLetters[k] = c
  THEN UpperLetters[CHOOSE k \in 1..26 : LowerLetters[k] = c]
  ELSE c

toUpperCase(s) == [k \in 1..Len(s) |-> UpperChar(s[k])]

(* Ways of writing a name in another letter case. *)
Recased(name, style) ==
  CASE style = "upper" -> toUpperCase(name)
    [] style = "lower" -> toLowerCase(name)
    [] style = "capital" ->
         IF name = <<>> THEN name
         ELSE <<UpperChar(name[1])>> \o toLowerCase(Tail(name))
    [] OTHER -> name

CaseStyles == {"same", "upper", "lower", "capital"}

Reorderings(n) == {f \in [1..n -> 1..n] : \A a, b \in 1..n : f[a] = f[b] => a = b}

(* The request reordered by perm, the names at odd places recased by one *)
(* style and those at even places by another.                            *)
Rewritten(medications, perm, oddStyle, evenStyle) ==
  [k \in 1..Len(medications) |->
     [medications[perm[k]] EXCEPT
        !.name = Recased(@, IF k % 2 = 1 THEN oddStyle ELSE evenStyle)]]

(* A finding without the order and spelling of its pair. *)
Unordered(finding) ==
  [pair |-> {toLowerCase(finding.medications[1]), toLowerCase(finding.medications[2])},
   severity |-> finding.severity,
   reason |-> finding.reason,
   canSeparateBySchedule |-> finding.canSeparateBySchedule,
   minHoursApart |-> finding.minHoursApart]

(* The two lists hold the same findings, as often, up to order and spelling. *)
SameFindings(f, g) ==
  /\ Len(f) = Len(g)
  /\ \A k \in 1..Len(f) :
       Cardinality({m \in 1..Len(f) : Unordered(f[m]) = Unordered(f[k])}) =
       Cardinality({m \in 1..Len(g) : Unordered(g[m]) = Unordered(f[k])})

(* C8: the pair key is the same for both orders of the two names and for *)
(* every letter case of either, and the analysis of a request reordered  *)
(* and recased finds the same findings up to pair order and spelling.    *)
C8_LookupIgnoresOrderAndCase ==
  (entry = "local" /\ pc = "done") =>
    /\ \A a, b \in 1..Len(payload) : \A sa, sb \in CaseStyles :
         LET x == payload[a].name
             y == payload[b].name
         IN /\ toPairKey(x, y) = toPairKey(y, x)
            /\ toPairKey(Recased(x, sa), Recased(y, sb)) = toPairKey(x, y)
    /\ \A perm \in Reorderings(Len(payload)) :
         \A oddStyle \in {"same", "upper"} : \A evenStyle \in {"same", "capital"} :
           SameFindings(
             analyzePrescription(Rewritten(payload, perm, oddStyle, evenStyle)).interactions,
             result[1].interactions)

(* A request with findings whose names come in both orders of their keys. *)
C8_Witness ==
  /\ entry = "local"
  /\ Returned
  /\ Len(payload) = 3
  /\ Len(result[1].interactions) >= 2
  /\ \E k \in 1..Len(result[1].interactions) :
       StrLess(toLowerCase(result[1].interactions[k].medications[2]),
               toLowerCase(result[1].interactions[k].medications[1]))
  /\ \E k \in 1..Len(result[1].interactions) :
       result[1].interactions[k].medications[1] # toLowerCase(result[1].interactions[k].medications[1])

(* The type the claim gives to the recommendation for a finding. *)
ExpectedType(finding) ==
  IF finding.severity = "contraindicated" THEN "avoid_combination"
  ELSE IF finding.canSeparateBySchedule = TRUE /\ IsSome(finding.minHoursApart)
  THEN "keep_and_separate"
  ELSE "replace_medication"

(* C9: every returned result has one recommendation per interaction, in   *)
(* the order of the interactions: avoid_combination for a contraindicated *)
(* one, else keep_and_separate when it is separable and has a minimum     *)
(* gap, else replace_medication.                                          *)
C9_OneRecommendationPerInteraction ==
  Returned =>
    /\ Len(result[1].recommendations) = Len(result[1].interactions)
    /\ \A k \in 1..Len(result[1].interactions) :
         result[1].recommendations[k].type = ExpectedType(result[1].interactions[k])

(* A merged result with the three types of recommendation. *)
C9_Witness ==
  /\ MergedDone
  /\ Len(result[1].recommendations) = 3
  /\ result[1].recommendations[1].type = "keep_and_separate"
  /\ result[1].recommendations[2].type = "avoid_combination"
  /\ result[1].recommendations[3].type = "replace_medication"

ScenarioC == <<Med(<<"c","a","l","c","i","u","m">>, 2), Med(<<"l","e","v","o","t","h","y","r","o","x","i","n","e">>, 1)>>

(* C10: for calcium twice a day with levothyroxine once a day the local   *)
(* analysis has one finding (moderate, separable, 4 hours), is safe, and  *)
(* returns a schedule with every calcium time at least 4 circular hours   *)
(* from every levothyroxine time, the calcium times being the default and *)
(* the levothyroxine times the default shifted by 0 to 12 whole hours.    *)
C10_ScenarioC ==
  (entry = "local" /\ pc = "done" /\ payload = ScenarioC) =>
    /\ Returned
    /\ LET r == result[1] IN
       /\ Len(r.interactions) = 1
       /\ r.interactions[1].severity = "moderate"
       /\ r.interactions[1].canSeparateBySchedule = TRUE
       /\ r.interactions[1].minHoursApart = Some(4)
       /\ r.isSafe = TRUE
       /\ Len(r.schedule) = 2
       /\ r.schedule[1].medication = <<"c","a","l","c","i","u","m">>
       /\ r.schedule[2].medication = <<"l","e","v","o","t","h","y","r","o","x","i","n","e">>
       /\ \A ka \in 1..Len(r.schedule[1].times) : \A kb \in 1..Len(r.schedule[2].times) :
            timeDiffHours(r.schedule[1].times[ka], r.schedule[2].times[kb])
              >= 4 * MinutesPerHour
       /\ r.schedule[1].times = <<<<"0","8",":","0","0">>, <<"2","0",":","0","0">>>>
       /\ r.schedule[2].times \in
            {<<<<"0","8",":","0","0">>>>, <<<<"0","9",":","0","0">>>>, <<<<"1","0",":","0","0">>>>, <<<<"1","1",":","0","0">>>>, <<<<"1","2",":","0","0">>>>,
             <<<<"1","3",":","0","0">>>>, <<<<"1","4",":","0","0">>>>, <<<<"1","5",":","0","0">>>>, <<<<"1","6",":","0","0">>>>, <<<<"1","7",":","0","0">>>>,
             <<<<"1","8",":","0","0">>>>, <<<<"1","9",":","0","0">>>>, <<<<"2","0",":","0","0">>>>}

C10_Witness ==
  /\ entry = "local"
  /\ payload = ScenarioC
  /\ Returned
  /\ result[1].schedule[2].times = <<<<"1","2",":","0","0">>>>
  /\ IsSome(result[1].schedule[2].note)

(* C11: when no pair of the request has a rule, the local analysis returns *)
(* no findings, isSafe = true, no recommendations, and the default         *)
(* schedule: one slot per medication in input order, with the default      *)
(* times of its frequencyPerDay and no note.                               *)
C11_NoRuleDefaultSchedule ==
  (entry = "local" /\ pc = "done" /\ RulePairs(payload) = {}) =>
    /\ Returned
    /\ result[1].interactions = <<>>
    /\ result[1].isSafe = TRUE
    /\ result[1].recommendations = <<>>
    /\ Len(result[1].schedule) = Len(payload)
    /\ \A k \in 1..Len(payload) :
         /\ result[1].schedule[k].medication = payload[k].name
         /\ result[1].schedule[k].times = baseTimes[payload[k].frequencyPerDay]
         /\ result[1].schedule[k].note = None

(* Three medications without any rule between them, taken once, three and *)
(* four times a day.                                                      *)
C11_Witness ==
  /\ entry = "local"
  /\ Returned
  /\ RulePairs(payload) = {}
  /\ Len(payload) = 3
  /\ {payload[k].frequencyPerDay : k \in 1..3} = {1, 3, 4}

(* The external interactions of a request that hears these answers to its *)
(* calls, one per pair in loop order; None when an answer is a failure.   *)
RECURSIVE CollectAlone(_, _, _, _)
CollectAlone(medications, pairs, heard, found) ==
  IF pairs = <<>> THEN Some(found)
  ELSE IF heard = <<>> \/ heard[1].kind = "failed" THEN None
  ELSE CollectAlone(medications, Tail(pairs), Tail(heard),
         IF parseConflictResponse(DecodeBody(heard[1])).hasConflict
         THEN Append(found, ExternalFinding(medications[pairs[1][1]],
                                            medications[pairs[1][2]],
                                            parseConflictResponse(DecodeBody(heard[1]))))
         ELSE found)

AloneResult(localResult, collected) ==
  IF endpoint = "none" \/ collected = None THEN localResult
  ELSE MergedResult(localResult, collected[1])

(* The result of a request that runs with no other request in flight, *)
(* against the tables as the module defines them.                     *)
RunAlone(medications, heard) ==
  AloneResult(analyzePrescription(medications),
              CollectAlone(medications, IndexPairs(Len(medications)), heard, <<>>))

(* C12: for any interleaving of two requests at their awaits, each       *)
(* request returns what it would return alone with the same answers, and *)
(* the rule base and the default-times table stay as defined.            *)
C12_PeersDoNotInterfere ==
  /\ tables = SharedTables
  /\ \A r \in Peers :
       pc[r] = "done" => result[r] = Some(RunAlone(payload[r], outcomes[r]))

(* Both requests returned, their calls alternated, the first merged a *)
(* conflict, the second fell back to a local result with moved times. *)
C12_Witness ==
  /\ pc = [r \in Peers |-> "done"]
  /\ \E k \in 1..(Len(calls) - 2) :
       calls[k][1] = 1 /\ calls[k + 1][1] = 2 /\ calls[k + 2][1] = 1
  /\ result[1][1].interactions # <<>>
  /\ result[1][1] # local[1][1]
  /\ outcomes[2] # <<>>
  /\ outcomes[2][Len(outcomes[2])] = Failed
  /\ \E k \in 1..Len(payload[2]) :
       result[2][1].schedule[k].times # baseTimes[payload[2][k].frequencyPerDay]

(* The body is a bare JSON boolean or a text that is not JSON. *)
BareAnswer(body) ==
  \/ body.kind = "text"
  \/ body.kind = "json" /\ body.value.t = "bool"

(* The external interaction set holds one interaction per call answered *)
(* with a conflict, in the order of the calls, with the names of the    *)
(* pair in input order.                                                 *)
ExternalSetIsConflictCalls ==
  entry = "external" =>
    /\ Len(interactions) = Len(ConflictCalls)
    /\ \A m \in 1..Len(ConflictCalls) :
         /\ ConflictCalls[m][1] < ConflictCalls[m][2]
         /\ interactions[m].medications =
              <<payload[ConflictCalls[m][1]].name, payload[ConflictCalls[m][2]].name>>
    /\ \A m \in 1..(Len(ConflictCalls) - 1) :
         PairBefore(ConflictCalls[m], ConflictCalls[m + 1])

(* What the answer body to the call for the pair (i, j) does to the set. *)
AnswerRecorded(body) ==
  LET parsed == parseConflictResponse(DecodeBody(body))
      last == interactions'[Len(interactions')]
  IN IF ~parsed.hasConflict THEN interactions' = interactions
     ELSE /\ Len(interactions') = Len(interactions) + 1
          /\ SubSeq(interactions', 1, Len(interactions)) = interactions
          /\ last.medications = <<payload[i].name, payload[j].name>>
          /\ last.severity =
               (IF IsSome(parsed.severity) THEN parsed.severity[1] ELSE "major")
          /\ last.reason =
               (IF IsSome(parsed.reason) THEN parsed.reason[1] ELSE GenericReason)
          /\ (BareAnswer(body) =>
                /\ last.severity = "major"
                /\ last.canSeparateBySchedule = FALSE
                /\ last.minHoursApart = None)

(* C13: the external interaction set is exactly the pairs whose normalized *)
(* response has hasConflict = true, in the order of the pair enumeration,  *)
(* each pair in input order; an interaction is major when the response     *)
(* gave no severity and has the generic reason when it gave none, so a     *)
(* conflict reported as a bare boolean or as free text is recorded as      *)
(* major and not separable.                                                *)
C13_ExternalSetFromResponses ==
  /\ []ExternalSetIsConflictCalls
  /\ [][\A body \in ExternalBodies : TextResolves(body) => AnswerRecorded(body)]_vars

(* Three medications: the first pair was answered "no conflict", the second *)
(* with the bare boolean true, the third with a free text of caution.       *)
C13_Witness ==
  /\ entry = "external"
  /\ Len(payload) = 3
  /\ outcomes = <<"clear", "conflict", "conflict">>
  /\ Len(interactions) = 2
  /\ interactions[1].medications = <<payload[1].name, payload[3].name>>
  /\ interactions[1].severity = "major"
  /\ interactions[1].reason = GenericReason
  /\ interactions[2].medications = <<payload[2].name, payload[3].name>>
  /\ interactions[2].reason = <<"U","s","e"," ","c","a","u","t","i","o","n"," ","w","h","e","n"," ","c","o","m","b","i","n","i","n","g"," ","t","h","e","s","e"," ","d","r","u","g","s">>
  /\ ~interactions[2].canSeparateBySchedule

(* The hours from clock time a forward to clock time b, in minutes; a full *)
(* day from a time to itself.                                             *)
ForwardGap(a, b) ==
  LET d == (parseTime(b) - parseTime(a)) % MinutesPerDay
  IN IF d = 0 THEN MinutesPerDay ELSE d

(* f times, each 24/f hours before the next one, the last before the first *)
EvenlySpread(times, f) ==
  /\ Len(times) = f
  /\ \A n \in 1..Len(times) :
       ForwardGap(times[n], times[(n % Len(times)) + 1]) * f = MinutesPerDay

(* C14: the default times of a medication taken f times a day are f times *)
(* evenly distributed across the day: consecutive times, taken circularly *)
(* over 24 hours, are 24/f hours apart.                                   *)
C14_DefaultTimesEvenlySpread ==
  \A k \in 1..Len(payload) :
     EvenlySpread(buildInitialSchedule(payload)[k].times, payload[k].frequencyPerDay)

----------------------------------------------------------------------------
(* Properties of the optimizer, one finding at a time *)

(* The schedule of a request before the optimizer has processed a finding. *)
DefaultSchedule(medications) ==
  [k \in 1..Len(medications) |->
     [medication |-> medications[k].name,
      times |-> baseTimes[medications[k].frequencyPerDay],
      note |-> None]]

(* The schedule after the optimizer has processed the first n findings. *)
ScheduleAfter(medications, findings, n) ==
  optimizeSchedule(DefaultSchedule(medications), SubSeq(findings, 1, n))

(* The circular distance of two clock times, in minutes. *)
CircularMinutes(a, b) ==
  LET d == (parseTime(a) - parseTime(b)) % MinutesPerDay
  IN IF d <= MinutesPerDay - d THEN d ELSE MinutesPerDay - d

(* Every time of timesA is at least hours circular hours from every time *)
(* of timesB.                                                            *)
Apart(timesA, timesB, hours) ==
  \A ka \in 1..Len(timesA) : \A kb \in 1..Len(timesB) :
     CircularMinutes(timesA[ka], timesB[kb]) >= hours * MinutesPerHour

(* The clock times moved forward by a whole number of hours, modulo a day. *)
Moved(times, hours) ==
  [k \in 1..Len(times) |->
     formatTime((parseTime(times[k]) + hours * MinutesPerHour) % MinutesPerDay)]

(* The finding is one the optimizer acts on. *)
Separable(finding) == finding.canSeparateBySchedule /\ IsSome(finding.minHoursApart)

(* The first slot of a schedule for a medication name: the slot the *)
(* optimizer works on for that name.                                *)
SlotOf(schedule, name) ==
  CHOOSE k \in 1..Len(schedule) :
    /\ schedule[k].medication = name
    /\ \A l \in 1..(k - 1) : schedule[l].medication # name

(* The times of every slot are the same in the two schedules. *)
SameTimes(before, after) ==
  /\ Len(after) = Len(before)
  /\ \A n \in 1..Len(before) :
       /\ after[n].medication = before[n].medication
       /\ after[n].times = before[n].times

(* The notes are the same in the two schedules but for slot b. *)
SameNotesBut(before, after, b) ==
  \A n \in 1..Len(before) : n # b => after[n].note = before[n].note

(* P(before, after, finding) holds of every finding of the returned result, *)
(* for the schedules before and after the optimizer processed it.           *)
EveryStep(P(_, _, _)) ==
  (entry = "local" /\ pc = "done") =>
    /\ Returned
    /\ result[1].schedule =
         ScheduleAfter(payload, result[1].interactions, Len(result[1].interactions))
    /\ \A n \in 1..Len(result[1].interactions) :
       P(ScheduleAfter(payload, result[1].interactions, n - 1),
         ScheduleAfter(payload, result[1].interactions, n),
         result[1].interactions[n])

(* Some finding of the returned result satisfies P in the same way. *)
SomeStep(P(_, _, _)) ==
  /\ entry = "local"
  /\ pc = "done"
  /\ Returned
  /\ \E n \in 1..Len(result[1].interactions) :
       P(ScheduleAfter(payload, result[1].interactions, n - 1),
         ScheduleAfter(payload, result[1].interactions, n),
         result[1].interactions[n])

(* The finding is separable and its gap is respected in the schedule. *)
GapRespected(schedule, finding) ==
  /\ Separable(finding)
  /\ Apart(schedule[SlotOf(schedule, finding.medications[1])].times,
           schedule[SlotOf(schedule, finding.medications[2])].times,
           finding.minHoursApart[1])

(* The finding is separable and its gap is not respected in the schedule. *)
GapBroken(schedule, finding) ==
  /\ Separable(finding)
  /\ ~Apart(schedule[SlotOf(schedule, finding.medications[1])].times,
            schedule[SlotOf(schedule, finding.medications[2])].times,
            finding.minHoursApart[1])

(* The whole shifts from from to 12 hours of slot B that pass the gap check *)
(* of the finding against slot A.                                           *)
PassingShifts(schedule, finding, from) ==
  {s \in from..12 :
     Apart(schedule[SlotOf(schedule, finding.medications[1])].times,
           Moved(schedule[SlotOf(schedule, finding.medications[2])].times, s),
           finding.minHoursApart[1])}

RespectedKeepsTimes(before, after, finding) ==
  GapRespected(before, finding) =>
    LET a == SlotOf(before, finding.medications[1])
        b == SlotOf(before, finding.medications[2])
    IN /\ SameTimes(before, after)
       /\ SameNotesBut(before, after, b)
       /\ after[b].note =
            Some(KeepNote(finding.minHoursApart[1], before[a].medication))

(* C15: when the optimizer processes a separable finding whose gap is      *)
(* already respected, it changes no times in any slot and only sets the    *)
(* note of the second medication's slot to the keep-apart note.            *)
C15_RespectedGapKeepsTimes == EveryStep(RespectedKeepsTimes)

RespectedAfterShift(before, after, finding) ==
  /\ GapRespected(before, finding)
  /\ before # DefaultSchedule(payload)
  /\ IsSome(before[SlotOf(before, finding.medications[2])].note)

(* A gap found respected on a slot that an earlier finding had shifted and *)
(* noted: the earlier note is replaced, the times stay.                    *)
C15_Witness == SomeStep(RespectedAfterShift)

ShiftIsSmallest(before, after, finding) ==
  (GapBroken(before, finding) /\
   PassingShifts(before, finding, finding.minHoursApart[1]) # {}) =>
    LET a == SlotOf(before, finding.medications[1])
        b == SlotOf(before, finding.medications[2])
        m == finding.minHoursApart[1]
        passing == PassingShifts(before, finding, m)
        s == CHOOSE s \in passing : \A t \in passing : s <= t
    IN /\ after[b].times = Moved(before[b].times, s)
       /\ Apart(after[a].times, after[b].times, m)
       /\ after[b].note = Some(ShiftedNote(m, before[a].medication))

(* C16: when the gap is not respected and some whole shift s of slot B,   *)
(* minHoursApart <= s <= 12, puts every shifted time (mod 24h) at least   *)
(* minHoursApart circular hours from every time of slot A, the optimizer  *)
(* applies the smallest such shift; the gap check between the two slots   *)
(* then passes and slot B carries the shifted note.                       *)
C16_SmallestPassingShift == EveryStep(ShiftIsSmallest)

ShiftedBeyondMinimum(before, after, finding) ==
  /\ GapBroken(before, finding)
  /\ PassingShifts(before, finding, finding.minHoursApart[1]) # {}
  /\ finding.minHoursApart[1] \notin
       PassingShifts(before, finding, finding.minHoursApart[1])
  /\ Cardinality(PassingShifts(before, finding, finding.minHoursApart[1])) > 1

(* A finding for which the first shift tried fails and more than one later *)
(* shift passes.                                                           *)
C16_Witness == SomeStep(ShiftedBeyondMinimum)

UnableKeepsTimes(before, after, finding) ==
  (GapBroken(before, finding) /\
   PassingShifts(before, finding, finding.minHoursApart[1]) = {}) =>
    LET a == SlotOf(before, finding.medications[1])
        b == SlotOf(before, finding.medications[2])
    IN /\ SameTimes(before, after)
       /\ SameNotesBut(before, after, b)
       /\ after[b].note = Some(UnableNote(before[a].medication))

(* The analysis returned a result with its four fields and no error. *)
CompleteResult ==
  /\ Returned
  /\ ~raised
  /\ DOMAIN result[1] = {"isSafe", "interactions", "schedule", "recommendations"}
  /\ Len(result[1].schedule) = Len(payload)
  /\ Len(result[1].recommendations) = Len(result[1].interactions)

(* C17: when no whole shift from minHoursApart to 12 passes the gap check, *)
(* the optimizer leaves the times of both slots as they were before the    *)
(* finding, sets the note of slot B to the unable-to-separate note, raises *)
(* no error, and the analysis returns a complete result.                   *)
C17_UnableKeepsTimes ==
  /\ EveryStep(UnableKeepsTimes)
  /\ (entry = "local" /\ pc = "done") => CompleteResult

NoShiftPasses(before, after, finding) ==
  /\ GapBroken(before, finding)
  /\ PassingShifts(before, finding, finding.minHoursApart[1]) = {}
  /\ before # DefaultSchedule(payload)

(* A finding for which no shift passes, on a schedule that an earlier *)
(* finding had changed.                                               *)
C17_Witness == SomeStep(NoShiftPasses) /\ CompleteResult

OthersUntouched(before, after, finding) ==
  /\ Len(after) = Len(before)
  /\ \A n \in 1..Len(before) :
       (/\ before[n].medication # finding.medications[1]
        /\ before[n].medication # finding.medications[2]) => after[n] = before[n]
  /\ (~finding.canSeparateBySchedule \/ ~IsSome(finding.minHoursApart)) =>
       after = before

(* C18: processing one finding leaves every slot that the finding does not *)
(* name unchanged in times and note, and a finding that is not separable   *)
(* by schedule or has no minHoursApart changes no slot at all.             *)
C18_OnlyNamedSlotsTouched == EveryStep(OthersUntouched)

UnseparableAfterChange(before, after, finding) ==
  /\ ~Separable(finding)
  /\ Len(before) = MaxMedications
  /\ before # DefaultSchedule(payload)

(* Four medications: a finding that is not separable, processed after a *)
(* finding that changed the schedule.                                   *)
C18_Witness == SomeStep(UnseparableAfterChange)

(* The position in the request of the two medications of the n-th finding. *)
PositionsOf(medications, n) == KthPair(RulePairs(medications), n)

(* The slot carries an unable-to-separate note. *)
NotedUnable(slot) ==
  \E k \in 1..Len(payload) : slot.note = Some(UnableNote(payload[k].name))

(* C19: in the schedule that analyzePrescription returns, for every finding *)
(* that is separable with a minimum gap, either every time of the slot at   *)
(* the position of its first medication is at least minHoursApart circular  *)
(* hours from every time of the slot at the position of its second          *)
(* medication, or that second slot carries the unable-to-separate note;     *)
(* also for requests that repeat a name or spell it in another case.        *)
C19_SeparableFindingsSeparated ==
  (entry = "local" /\ pc = "done") =>
    \A n \in 1..Len(result[1].interactions) :
       Separable(result[1].interactions[n]) =>
         LET p == PositionsOf(payload, n)
         IN \/ Apart(result[1].schedule[p[1]].times, result[1].schedule[p[2]].times,
                     result[1].interactions[n].minHoursApart[1])
            \/ NotedUnable(result[1].schedule[p[2]])

SkippedSmaller(before, after, finding) ==
  /\ GapBroken(before, finding)
  /\ LET b == SlotOf(before, finding.medications[2])
         m == finding.minHoursApart[1]
         smaller == PassingShifts(before, finding, 1) \cap 1..(m - 1)
     IN /\ smaller # {}
        /\ \/ after[b].times = before[b].times /\ NotedUnable(after[b])
           \/ \E s \in m..12 : after[b].times = Moved(before[b].times, s)
        /\ \A s \in smaller : after[b].times # Moved(before[b].times, s)

(* C20: the shift search starts at minHoursApart, so it can skip a smaller *)
(* shift that passes: for calcium 1/day, Calcium 3/day, cAlcium 4/day and  *)
(* levothyroxine 1/day (built-in rules, default times) the optimizer meets *)
(* a finding for which a shift s, 1 <= s < minHoursApart, passes the gap   *)
(* check, and it applies a larger shift or reports that it is unable to    *)
(* separate.                                                               *)
C20_SearchSkipsSmallerShift ==
  (entry = "local" /\ pc = "done" /\ payload = SkippedShiftRequest) =>
    SomeStep(SkippedSmaller)

(* The analysis of that request has returned, the levothyroxine slot noted *)
(* unable by the third finding although a shift of 2 hours passes.         *)
C20_Witness ==
  /\ payload = SkippedShiftRequest
  /\ SomeStep(SkippedSmaller)
  /\ result[1].schedule[4].times = <<<<"0","0",":","0","0">>>>
  /\ result[1].schedule[4].note = Some(UnableNote(<<"c","A","l","c","i","u","m">>))
  /\ Apart(result[1].schedule[3].times, Moved(result[1].schedule[4].times, 2), 4)


(* The nested object under a key of the root, if there is one. *)
ObjectUnder(root, key) ==
  IF key \in DOMAIN root /\ root[key].t = "obj" THEN <<root[key].o>> ELSE <<>>

(* The scopes of an object payload in the order of the claim. *)
ScopeOrder(root) ==
  <<root>> \o ObjectUnder(root, "result") \o ObjectUnder(root, "data") \o
  ObjectUnder(root, "prediction") \o ObjectUnder(root, "output")

(* What one scope yields when it is scanned on its own. *)
YieldOf(scope) == ScanScope(Unset, scope)

(* The value of a field from the first scope that yields one. *)
FirstYield(scopes, field) ==
  IF \E k \in 1..Len(scopes) : IsSome(YieldOf(scopes[k])[field])
  THEN YieldOf(scopes[CHOOSE k \in 1..Len(scopes) :
                        /\ IsSome(YieldOf(scopes[k])[field])
                        /\ \A l \in 1..(k - 1) : ~IsSome(YieldOf(scopes[l])[field])])[field]
  ELSE None

Normalized == entry = "normalize" /\ pc # "idle"

FieldsFromFirstYield(parsed, scopes) ==
  /\ parsed.hasConflict = OrFalse(FirstYield(scopes, "hasConflict"))
  /\ parsed.reason = FirstYield(scopes, "reason")
  /\ parsed.severity = FirstYield(scopes, "severity")
  /\ parsed.canSeparateBySchedule = Some(OrFalse(FirstYield(scopes, "canSeparateBySchedule")))
  /\ parsed.minHoursApart = FirstYield(scopes, "minHoursApart")

(* C21: for an object payload the scopes are the root and then the nested *)
(* objects under result, data, prediction, output, in that order, and     *)
(* each of hasConflict, reason, severity, canSeparateBySchedule and       *)
(* minHoursApart comes from the first scope that yields a value for it;   *)
(* a false or a 0 from an earlier scope stays.                            *)
C21_FirstScopeWins ==
  (Normalized /\ payload.t = "obj") =>
    FieldsFromFirstYield(result[1], ScopeOrder(payload.o))

(* The root says no conflict, not separable, 0 hours; the object under *)
(* data says conflict, separable, 4 hours: the root's values stand.    *)
C21_Witness ==
  /\ Normalized
  /\ payload.t = "obj"
  /\ Len(ScopeOrder(payload.o)) >= 3
  /\ YieldOf(payload.o).hasConflict = Some(FALSE)
  /\ YieldOf(payload.o).minHoursApart = Some(0)
  /\ YieldOf(payload.o).canSeparateBySchedule = Some(FALSE)
  /\ \E k \in 2..Len(ScopeOrder(payload.o)) :
       /\ YieldOf(ScopeOrder(payload.o)[k]).hasConflict = Some(TRUE)
       /\ YieldOf(ScopeOrder(payload.o)[k]).minHoursApart = Some(40)
       /\ YieldOf(ScopeOrder(payload.o)[k]).canSeparateBySchedule = Some(TRUE)
  /\ ~result[1].hasConflict
  /\ result[1].minHoursApart = Some(0)
  /\ result[1].canSeparateBySchedule = Some(FALSE)


(* The verdict and severity of a recognized interaction-level text. *)
LevelMeaning(text) ==
  IF toLowerCase(text) = <<"h","i","g","h">> THEN Some(<<TRUE, "major">>)
  ELSE IF toLowerCase(text) = <<"m","o","d","e","r","a","t","e">> THEN Some(<<TRUE, "moderate">>)
  ELSE IF toLowerCase(text) \in {<<"l","o","w">>, <<"m","i","n","o","r">>} THEN Some(<<FALSE, "minor">>)
  ELSE None

RecognizedLevel(scope) ==
  IF IsSome(readString(scope, LevelKeys))
  THEN LevelMeaning(readString(scope, LevelKeys)[1]) ELSE None

(* The truth value of a boolean-like value: a boolean, 0 or 1, or one of *)
(* the eight words in any letter case.                                   *)
BooleanLike(v) ==
  IF v.t = "bool" THEN Some(v.b)
  ELSE IF v.t = "num" /\ v.n \in {0, 10} THEN Some(v.n = 10)
  ELSE IF v.t = "str" /\ toLowerCase(Trim(v.s)) \in {<<"t","r","u","e">>, <<"y","e","s">>, <<"y">>, <<"1">>}
  THEN Some(TRUE)
  ELSE IF v.t = "str" /\ toLowerCase(Trim(v.s)) \in {<<"f","a","l","s","e">>, <<"n","o">>, <<"n">>, <<"0">>}
  THEN Some(FALSE)
  ELSE None

(* The first conflict field of the scope that holds a boolean-like value. *)
BooleanFieldOf(scope) ==
  IF \E k \in 1..Len(ConflictKeys) :
       ConflictKeys[k] \in DOMAIN scope /\ IsSome(BooleanLike(scope[ConflictKeys[k]]))
  THEN BooleanLike(scope[ConflictKeys[
         CHOOSE k \in 1..Len(ConflictKeys) :
           /\ ConflictKeys[k] \in DOMAIN scope
           /\ IsSome(BooleanLike(scope[ConflictKeys[k]]))
           /\ \A l \in 1..(k - 1) :
                ~(ConflictKeys[l] \in DOMAIN scope
                  /\ IsSome(BooleanLike(scope[ConflictKeys[l]])))]])
  ELSE None

(* What a scope decides about the conflict, by the three tiers in turn. *)
DecisionOf(scope) ==
  IF IsSome(RecognizedLevel(scope)) THEN Some(RecognizedLevel(scope)[1][1])
  ELSE IF IsSome(BooleanFieldOf(scope)) THEN BooleanFieldOf(scope)
  ELSE IF IsSome(readString(scope, StatusKeys))
  THEN parseBooleanFromText(readString(scope, StatusKeys)[1])
  ELSE None

FirstDecision(scopes) ==
  IF \E k \in 1..Len(scopes) : IsSome(DecisionOf(scopes[k]))
  THEN DecisionOf(scopes[CHOOSE k \in 1..Len(scopes) :
                           /\ IsSome(DecisionOf(scopes[k]))
                           /\ \A l \in 1..(k - 1) : ~IsSome(DecisionOf(scopes[l]))])[1]
  ELSE FALSE

(* C22: within a scope a recognized interaction level decides hasConflict *)
(* (high: true, major; moderate: true, moderate; low or minor: false,     *)
(* minor); without one the boolean-like conflict fields decide; without   *)
(* those the free-text verdict of the status text; and hasConflict is     *)
(* false when no scope decides.                                           *)
C22_LevelThenBooleanThenText ==
  (Normalized /\ payload.t = "obj") =>
    /\ result[1].hasConflict = FirstDecision(ScopeOrder(payload.o))
    /\ IsSome(RecognizedLevel(payload.o)) =>
         result[1].severity = Some(RecognizedLevel(payload.o)[1][2])

(* Level low with a conflict field saying yes and a status text saying use *)
(* caution: no conflict, severity minor.                                   *)
C22_Witness ==
  /\ Normalized
  /\ payload.t = "obj"
  /\ RecognizedLevel(payload.o) = Some(<<FALSE, "minor">>)
  /\ BooleanFieldOf(payload.o) = Some(TRUE)
  /\ IsSome(readString(payload.o, StatusKeys))
  /\ parseBooleanFromText(readString(payload.o, StatusKeys)[1]) = Some(TRUE)
  /\ ~result[1].hasConflict
  /\ result[1].severity = Some("minor")

(* No level; the conflict field says no and the status text says use *)
(* caution: no conflict.                                             *)
C22_WitnessBoolean ==
  /\ Normalized
  /\ payload.t = "obj"
  /\ RecognizedLevel(payload.o) = None
  /\ BooleanFieldOf(payload.o) = Some(FALSE)
  /\ IsSome(readString(payload.o, StatusKeys))
  /\ parseBooleanFromText(readString(payload.o, StatusKeys)[1]) = Some(TRUE)
  /\ ~result[1].hasConflict

(* Neither level nor boolean-like field; the status text decides. *)
C22_WitnessText ==
  /\ Normalized
  /\ payload.t = "obj"
  /\ Len(ScopeOrder(payload.o)) = 1
  /\ RecognizedLevel(payload.o) = None
  /\ BooleanFieldOf(payload.o) = None
  /\ "conflict" \in DOMAIN payload.o
  /\ IsSome(readString(payload.o, StatusKeys))
  /\ parseBooleanFromText(readString(payload.o, StatusKeys)[1]) = Some(TRUE)
  /\ result[1].hasConflict


(* The phrase classes of the free-text heuristic, in their precedence. *)
PhraseClasses ==
  <<[phrases |-> {<<"l","o","w"," ","i","n","t","e","r","a","c","t","i","o","n">>, <<"m","i","n","o","r"," ","i","n","t","e","r","a","c","t","i","o","n">>, <<"r","e","l","a","t","i","v","e","l","y"," ","s","a","f","e">>},
     verdict |-> FALSE],
    [phrases |-> {<<"h","i","g","h"," ","i","n","t","e","r","a","c","t","i","o","n">>, <<"m","o","d","e","r","a","t","e"," ","i","n","t","e","r","a","c","t","i","o","n">>, <<"h","i","g","h"," ","r","i","s","k">>,
                  <<"m","o","d","e","r","a","t","e"," ","r","i","s","k">>, <<"a","v","o","i","d"," ","t","a","k","i","n","g"," ","t","o","g","e","t","h","e","r">>, <<"u","s","e"," ","c","a","u","t","i","o","n">>},
     verdict |-> TRUE],
    [phrases |-> {<<"n","o"," ","c","o","n","f","l","i","c","t">>, <<"n","o"," ","i","n","t","e","r","a","c","t","i","o","n">>, <<"c","o","m","p","a","t","i","b","l","e">>},
     verdict |-> FALSE],
    [phrases |-> {<<"n","o","t"," ","s","a","f","e">>, <<"u","n","s","a","f","e">>, <<"h","a","s"," ","c","o","n","f","l","i","c","t">>, <<"h","a","s"," ","i","n","t","e","r","a","c","t","i","o","n">>},
     verdict |-> TRUE],
    [phrases |-> {<<"c","o","n","f","l","i","c","t">>, <<"i","n","t","e","r","a","c","t","i","o","n">>}, verdict |-> TRUE],
    [phrases |-> {<<"s","a","f","e">>}, verdict |-> FALSE]>>

Matches(text, class) == \E p \in PhraseClasses[class].phrases : Includes(text, p)

(* The verdict of the first class with a phrase in the text, if any. *)
FirstMatch(text) ==
  IF \E c \in 1..Len(PhraseClasses) : Matches(text, c)
  THEN Some(PhraseClasses[CHOOSE c \in 1..Len(PhraseClasses) :
                            /\ Matches(text, c)
                            /\ \A d \in 1..(c - 1) : ~Matches(text, d)].verdict)
  ELSE None

(* C23: the free-text heuristic returns the verdict of the first phrase   *)
(* class that matches the lowercased text (low risk: false; risk: true;   *)
(* none: false; presence: true; bare conflict or interaction: true; bare  *)
(* safe: false) and is undetermined otherwise; a raw string payload gets  *)
(* that verdict, false when undetermined, and the string as its reason.   *)
C23_FirstPhraseClassWins ==
  (Normalized /\ payload.t = "str") =>
    /\ parseBooleanFromText(payload.s) = FirstMatch(toLowerCase(payload.s))
    /\ result[1].hasConflict = OrFalse(FirstMatch(toLowerCase(payload.s)))
    /\ result[1].reason = Some(payload.s)

(* A text with a risk phrase and, after it, a phrase for none: conflict. *)
C23_Witness ==
  /\ Normalized
  /\ payload = JStr(<<"m","o","d","e","r","a","t","e"," ","i","n","t","e","r","a","c","t","i","o","n",";"," ","n","o"," ","c","o","n","f","l","i","c","t"," ","o","t","h","e","r","w","i","s","e">>)
  /\ Matches(toLowerCase(payload.s), 2)
  /\ Matches(toLowerCase(payload.s), 3)
  /\ result[1].hasConflict
  /\ result[1].reason = Some(payload.s)

(* A text without any phrase: undetermined, so no conflict. *)
C23_WitnessUndetermined ==
  /\ Normalized
  /\ payload = JStr(<<"o","k">>)
  /\ FirstMatch(payload.s) = None
  /\ ~result[1].hasConflict
  /\ result[1].reason = Some(<<"o","k">>)


(* The severity that a field value names, if it is a valid one. *)
SeverityMeaning(v) ==
  IF v.t # "str" THEN None
  ELSE IF toLowerCase(Trim(v.s)) = <<"m","i","n","o","r">> THEN Some("minor")
  ELSE IF toLowerCase(Trim(v.s)) \in {<<"m","o","d","e","r","a","t","e">>, <<"m","e","d","i","u","m">>} THEN Some("moderate")
  ELSE IF toLowerCase(Trim(v.s)) \in {<<"m","a","j","o","r">>, <<"h","i","g","h">>, <<"s","e","v","e","r","e">>} THEN Some("major")
  ELSE IF toLowerCase(Trim(v.s)) \in {<<"c","o","n","t","r","a","i","n","d","i","c","a","t","e","d">>, <<"c","r","i","t","i","c","a","l">>}
  THEN Some("contraindicated")
  ELSE None

ValidSeverityAt(scope, k) ==
  SeverityKeys[k] \in DOMAIN scope /\ IsSome(SeverityMeaning(scope[SeverityKeys[k]]))

(* The first valid value among severity, risk, riskLevel, risk_level. *)
FirstValidSeverity(scope) ==
  IF \E k \in 1..Len(SeverityKeys) : ValidSeverityAt(scope, k)
  THEN SeverityMeaning(scope[SeverityKeys[
         CHOOSE k \in 1..Len(SeverityKeys) :
           /\ ValidSeverityAt(scope, k)
           /\ \A l \in 1..(k - 1) : ~ValidSeverityAt(scope, l)]])
  ELSE None

NoLevelField(scope) == \A k \in 1..Len(LevelKeys) : LevelKeys[k] \notin DOMAIN scope

(* C24: for an object of one scope without an interaction-level field the *)
(* severity is the first valid value among the fields severity, risk,     *)
(* riskLevel, risk_level in that order; a field with an unrecognized or   *)
(* empty text is passed over.                                             *)
C24_FirstValidSeverity ==
  (Normalized /\ payload.t = "obj" /\ Len(ScopeOrder(payload.o)) = 1
     /\ NoLevelField(payload.o)) =>
    result[1].severity = FirstValidSeverity(payload.o)


(* max(1, round(v)) for a number v counted in tenths *)
FlooredAtOne(tenths) == IF MathRound(tenths) > 1 THEN MathRound(tenths) ELSE 1

(* The response was normalized to a conflict and its interaction pushed. *)
Pushed == entry = "normalize" /\ pc = "done" /\ interactions # <<>>

(* C25: an external interaction carries minHoursApart exactly when        *)
(* canSeparateBySchedule resolved true and a numeric value v was found,   *)
(* and then it is max(1, round(v)), for 0 and negative v as well.         *)
C25_HoursKeptWhenSeparable ==
  Pushed =>
    interactions[1].minHoursApart =
      IF result[1].canSeparateBySchedule = Some(TRUE) /\ IsSome(result[1].minHoursApart)
      THEN Some(FlooredAtOne(result[1].minHoursApart[1]))
      ELSE None


(* The request with every name in lower case. *)
Lowercased(medications) ==
  [k \in 1..Len(medications) |->
     [medications[k] EXCEPT !.name = toLowerCase(medications[k].name)]]

(* Every alternative that the rule of the finding lists, for either *)
(* medication, occurs in the text.                                  *)
NamesListedAlternatives(text, finding) ==
  \A name \in DOMAIN rules[toPairKey(finding.medications[1], finding.medications[2])].alternatives :
    \A k \in 1..Len(rules[toPairKey(finding.medications[1],
                                    finding.medications[2])].alternatives[name]) :
      Includes(text, rules[toPairKey(finding.medications[1],
                                     finding.medications[2])].alternatives[name][k])

SameDetails(given, lowered) ==
  /\ Len(given) = Len(lowered)
  /\ \A k \in 1..Len(given) : given[k].details = lowered[k].details

(* C26: the details of a local recommendation that carries alternatives   *)
(* (avoid_combination, replace_medication) name every alternative that    *)
(* the rule lists for the two medications, in whatever letter case the    *)
(* names were given: the request and the same request in lower case get   *)
(* the same details.                                                      *)
C26_AlternativesIgnoreCase ==
  (entry = "local" /\ pc = "done") =>
    /\ SameDetails(result[1].recommendations,
                   analyzePrescription(Lowercased(payload)).recommendations)
    /\ \A k \in 1..Len(result[1].interactions) :
         result[1].recommendations[k].type # "keep_and_separate" =>
           NamesListedAlternatives(result[1].recommendations[k].details,
                                   result[1].interactions[k])


(* Each time is later in the day than the one before it. *)
Ascending(times) ==
  \A k \in 1..(Len(times) - 1) : parseTime(times[k]) < parseTime(times[k + 1])

(* C27: in every schedule that analyzePrescription returns, shifted slots *)
(* included, the times of each slot are in ascending clock order.         *)
C27_TimesAscending ==
  (entry = "local" /\ pc = "done") =>
    \A k \in 1..Len(result[1].schedule) : Ascending(result[1].schedule[k].times)


BothAnswered == entry = "condition" /\ \A r \in Peers : pc[r] = "done"

(* The stored condition and the stored analysis are those of request r. *)
StoredFrom(r) ==
  /\ patient.condition = Some(payload[r].condition)
  /\ patient.analysis = result[r]

(* C28: after any interleaving of two condition assignments for the same   *)
(* patient, the stored condition and the stored analysis come from the     *)
(* same request.                                                           *)
C28_ConditionMatchesAnalysis ==
  BothAnswered => \E r \in Peers : StoredFrom(r)


(* min(|a - b|, 1440 - |a - b|) for two times in minutes since midnight *)
CircularDistance(a, b) ==
  IF a >= b
  THEN (IF a - b <= MinutesPerDay - (a - b) THEN a - b ELSE MinutesPerDay - (a - b))
  ELSE (IF b - a <= MinutesPerDay - (b - a) THEN b - a ELSE MinutesPerDay - (b - a))

(* C29: timeDiffHours(a, b) = timeDiffHours(b, a) for all valid times, and *)
(* the value is the circular distance min(|a-b|, 1440-|a-b|)/60, between   *)
(* 0 and 12 hours (0 and 720 minutes).                                     *)
C29_DistanceSymmetricWithinHalfDay ==
  (entry = "timeDiffHours" /\ pc = "done") =>
    /\ result[1] = timeDiffHours(payload[2], payload[1])
    /\ result[1] = CircularDistance(i, j)
    /\ result[1] >= 0
    /\ result[1] <= 12 * MinutesPerHour

(* Two times more than twelve hours apart on the clock face: the distance *)
(* goes through midnight.                                                 *)
C29_Witness ==
  /\ entry = "timeDiffHours"
  /\ pc = "done"
  /\ payload = <<<<"2","3",":","3","0">>, <<"0","0",":","0","1">>>>
  /\ result = Some(31)

(* C30: formatTime(parseTime(t)) = t for every zero-padded HH:MM text t *)
(* from 00:00 to 23:59.                                                 *)
C30_FormatParseRoundTrip ==
  (entry = "formatTime" /\ pc = "done") => result[1] = payload[1]

(* A time whose hour and minute both need the padding. *)
C30_Witness ==
  /\ entry = "formatTime"
  /\ pc = "done"
  /\ payload[1] = <<"0","8",":","0","5">>
  /\ result = Some(<<"0","8",":","0","5">>)

====
